---- MODULE Spec2Model ----
(***************************************************************************)
(* EasyShare transfer engine: connection manager (desktop                   *)
(* ConnectionManager and mobile useConnection), wire codec, pairing state   *)
(* machine and file receive paths.                                          *)
(*                                                                          *)
(* Specifications:                                                          *)
(*   Spec      - one connection manager and its TCP sockets                 *)
(*   SpecXfer  - the receiving side of a file transfer (chunks and HTTP)    *)
(*   SpecCodec - a framed byte stream cut into pieces and its MessageBuffer *)
(*   SpecCodecMalformed - SpecCodec with frames that carry no JSON          *)
(*   SpecPair  - two peers pairing over one connection                      *)
(*   SpecPairSilence - SpecPair with the passing of time                    *)
(*   SpecPairAny - a peer receiving pairing messages in any order           *)
(*   SpecKeepalive, SpecStall - the keepalive clock of one connection       *)
(*   SpecSend  - the sending side of a file transfer                        *)
(*   SpecConnect - one connectToDevice call of the desktop and its timers   *)
(*   SpecReconnect - mobile: disconnect and the foreground auto-reconnect   *)
(*   SpecStore - the transfer history kept by the storage service           *)
(***************************************************************************)
EXTENDS Integers, Sequences, FiniteSets, TLC

\* ------------------------------------------------------------------------
\* Bounds of the model
\* ------------------------------------------------------------------------
MaxSockets == 2
MaxCalls == 1
MaxTicks == 2
TickMs == 20000
\* the transfers added to the history in one run
MaxTransfers == 102
\* the step of the clock of a pairing exchange, in ms
SilenceStepMs == 16000

\* ------------------------------------------------------------------------
\* Program constants
\* ------------------------------------------------------------------------
STALE_MS == 30000
MAX_RETRIES == 3

VARIABLES
  platform,           \* "desktop" (ConnectionManager) or "mobile" (useConnection)
  now,                \* Date.now()
  sock,               \* every TCP socket object the manager has seen
  socket,             \* this.socket / socketRef.current (0 = null)
  connectedDevice,    \* this.connectedDevice / connectedDeviceRef.current
  connectionState,    \* ConnectionState.status
  lastPongReceived,
  keepaliveInterval,  \* TRUE while the keepalive interval timer is set
  transferActive,
  httpServer,         \* TRUE while this.httpServer is a listening server
  sendFileResolver,   \* id of the sendFile call whose resolver is stored (0 = null)
  pendingFileRequest, \* id of the sendFile call whose request is pending (0 = null)
  httpSendingRequestId, \* id of the call whose HTTP send is in progress (0 = null)
  calls,              \* the sendFile calls made so far
  attempt,            \* attempts made by the connectToDevice in progress (0 = none)
  pendingFileData,    \* mobile: pendingFileDataRef.current is set
  pendingFileUri,     \* mobile: pendingFileUriRef.current is set
  graceTimers,        \* desktop: pending 120 s timers of handleFileAccept
  xfer,               \* the receive state of a file transfer (SpecXfer)
  codec,              \* a framed byte stream and its MessageBuffer (SpecCodec)
  pair,               \* the pairing state of two connected peers (SpecPair)
  ka,                 \* the keepalive clock of one connection (SpecKeepalive, SpecStall)
  snd,                \* the sending side of a file transfer (SpecSend)
  conn,               \* one connectToDevice call of the desktop (SpecConnect)
  rec,                \* mobile: the auto-reconnect state of useConnection (SpecReconnect)
  store,              \* the transfer history of the storage service (SpecStore)
  recv                \* two small files sent back to back and their receiver (SpecTwoFiles)

mgrVars == <<platform, now, sock, socket, connectedDevice, connectionState,
             lastPongReceived, keepaliveInterval, transferActive, httpServer,
             sendFileResolver, pendingFileRequest, httpSendingRequestId, calls,
             attempt, pendingFileData, pendingFileUri, graceTimers>>

vars == <<mgrVars, xfer, codec, pair, ka, snd, conn, rec, store, recv>>

SockIds == 1..MaxSockets
CallIds == 1..MaxCalls

\* A socket object: st is its transport state, hnd says which handlers the
\* code attached to it, closeEv is TRUE while its 'close' event is still to
\* be emitted.
\*   hnd = "none"  no handler
\*         "dial"  desktop attemptConnection: 'connect' and 'error' only
\*         "mgr"   desktop setupSocketHandlers: data/close/error
\*         "cli"   mobile connect(): data/close/error of a dialed socket
\*         "srv"   mobile startServer(): data/close/error of an accepted socket
NoSock == [st |-> "unused", hnd |-> "none", accepted |-> FALSE, closeEv |-> FALSE]

\* A sendFile call: st is the position of the async function, tc the state of
\* its promise transferComplete, result the value the call returned, resolves
\* the number of times its resolver was invoked, lost whether the connection
\* was lost while the call was awaiting transferComplete.
NoCall == [st |-> "idle", large |-> FALSE, tc |-> "none", result |-> "none",
           resolves |-> 0, lost |-> FALSE]

\* The manager's state as one record, so that methods are functions on it.
St ==
  [platform |-> platform, now |-> now, sock |-> sock, socket |-> socket,
   connectedDevice |-> connectedDevice, connectionState |-> connectionState,
   lastPongReceived |-> lastPongReceived, keepaliveInterval |-> keepaliveInterval,
   transferActive |-> transferActive, httpServer |-> httpServer,
   sendFileResolver |-> sendFileResolver, pendingFileRequest |-> pendingFileRequest,
   httpSendingRequestId |-> httpSendingRequestId, calls |-> calls,
   attempt |-> attempt, pendingFileData |-> pendingFileData,
   pendingFileUri |-> pendingFileUri, graceTimers |-> graceTimers]

Set(S) ==
  /\ platform' = S.platform
  /\ now' = S.now
  /\ sock' = S.sock
  /\ socket' = S.socket
  /\ connectedDevice' = S.connectedDevice
  /\ connectionState' = S.connectionState
  /\ lastPongReceived' = S.lastPongReceived
  /\ keepaliveInterval' = S.keepaliveInterval
  /\ transferActive' = S.transferActive
  /\ httpServer' = S.httpServer
  /\ sendFileResolver' = S.sendFileResolver
  /\ pendingFileRequest' = S.pendingFileRequest
  /\ httpSendingRequestId' = S.httpSendingRequestId
  /\ calls' = S.calls
  /\ attempt' = S.attempt
  /\ pendingFileData' = S.pendingFileData
  /\ pendingFileUri' = S.pendingFileUri
  /\ graceTimers' = S.graceTimers
  /\ UNCHANGED <<xfer, codec, pair, ka, snd, conn, rec, store, recv>>

\* socket.destroy(): the socket is closed at once, its 'close' event is
\* emitted later (it is tracked only when a 'close' handler is attached);
\* destroying a closed socket does nothing.
destroy(S, s) ==
  IF S.sock[s].st \in {"open", "connecting"}
    THEN [S EXCEPT !.sock[s].st = "closed",
                   !.sock[s].closeEv = (S.sock[s].hnd \in {"mgr", "cli", "srv"})]
    ELSE S

\* A socket is live when it is open and its data/close handlers are attached.
Live(s) == sock[s].st = "open" /\ sock[s].hnd \in {"mgr", "cli", "srv"}

\* socket.destroyed || !socket.writable
socketDead(S) == S.sock[S.socket].st # "open"

stopKeepalive(S) == [S EXCEPT !.keepaliveInterval = FALSE]

startKeepalive(S) ==
  [stopKeepalive(S) EXCEPT !.lastPongReceived = S.now, !.keepaliveInterval = TRUE]

shutdownHttpServer(S) == [S EXCEPT !.httpServer = FALSE]

updateConnectionState(S, status) == [S EXCEPT !.connectionState = status]

\* Invoking the resolver of call c with value v: the promise transferComplete
\* settles on the first invocation; a sendFile that is awaiting it returns.
resolve(S, c, v) ==
  LET tc == IF S.calls[c].tc = "none" THEN v ELSE S.calls[c].tc
  IN [S EXCEPT !.calls[c].resolves = @ + 1,
               !.calls[c].tc = tc,
               !.calls[c].st = IF @ = "awaiting" THEN "returned" ELSE @,
               !.calls[c].result = IF S.calls[c].st = "awaiting" THEN tc ELSE @]

resolveSendFile(S, v) ==
  IF S.sendFileResolver # 0
    THEN [resolve(S, S.sendFileResolver, v) EXCEPT !.sendFileResolver = 0]
    ELSE S

\* ConnectionManager.disconnect() and useConnection's disconnect()
disconnect(S) ==
  LET S1 == stopKeepalive(S)
      S2 == IF S.platform = "desktop" THEN shutdownHttpServer(S1) ELSE S1
      S3 == IF S2.socket # 0 THEN [destroy(S2, S2.socket) EXCEPT !.socket = 0] ELSE S2
      S4 == [S3 EXCEPT !.connectedDevice = "null", !.transferActive = FALSE]
      S5 == resolveSendFile(S4, "false")
  IN updateConnectionState(S5, "disconnected")

\* History bookkeeping: the connection is being lost now; every call that is
\* awaiting its transferComplete promise was outstanding at that moment.
markLost(S) ==
  [S EXCEPT !.calls = [c \in CallIds |->
      IF S.calls[c].st = "awaiting" THEN [S.calls[c] EXCEPT !.lost = TRUE] ELSE S.calls[c]]]

\* ------------------------------------------------------------------------
\* Inbound connections
\* ------------------------------------------------------------------------
NextSock(s) == sock[s].st = "unused" /\ \A t \in SockIds : t < s => sock[t].st # "unused"

\* desktop: setupSocketHandlers()
setupSocketHandlers(S) ==
  IF S.socket = 0 THEN S
  ELSE startKeepalive([S EXCEPT !.sock[S.socket].hnd = "mgr"])

\* desktop: handleIncomingConnection(socket)
handleIncomingConnection(S, s) ==
  LET stale == (S.now - S.lastPongReceived) > STALE_MS
      S1 == [shutdownHttpServer(stopKeepalive(destroy(S, S.socket)))
               EXCEPT !.socket = 0, !.transferActive = FALSE]
      accept(T) == setupSocketHandlers(updateConnectionState([T EXCEPT !.socket = s], "connecting"))
  IN IF S.socket # 0
       THEN IF socketDead(S) \/ stale THEN accept(S1) ELSE destroy(S, s)
       ELSE accept(S)

\* mobile: the connection callback of TcpSocket.createServer in startServer()
startServerOnConnection(S, s) ==
  LET S1 == [S EXCEPT !.socket = s, !.connectedDevice = "placeholder",
                      !.sock[s].hnd = "srv"]
  IN startKeepalive(updateConnectionState(S1, "connected"))

Incoming(s) ==
  /\ NextSock(s)
  /\ LET S0 == [St EXCEPT !.sock[s] = [st |-> "open", hnd |-> "none",
                                        accepted |-> TRUE, closeEv |-> FALSE]]
     IN IF platform = "desktop"
          THEN Set(handleIncomingConnection(S0, s))
          ELSE Set(startServerOnConnection(S0, s))

\* ------------------------------------------------------------------------
\* Outbound connections
\* ------------------------------------------------------------------------
Dialing == \E s \in SockIds : sock[s].st = "connecting"

\* desktop: connectToDevice() entering its loop and attemptConnection()
\* creating the socket; mobile: connect() creating the socket with its
\* data/close/error handlers.
newAttempt(S, s) ==
  LET S1 == [S EXCEPT !.sock[s] = [st |-> "connecting",
                                   hnd |-> IF S.platform = "desktop" THEN "dial" ELSE "cli",
                                   accepted |-> FALSE, closeEv |-> FALSE],
                      !.attempt = @ + 1]
  IN updateConnectionState(S1, "connecting")

ConnectCall(s) ==
  /\ NextSock(s)
  /\ attempt = 0
  /\ ~Dialing
  /\ Set(newAttempt(St, s))

\* desktop: the next iteration of the loop of connectToDevice()
ConnectRetry(s) ==
  /\ platform = "desktop"
  /\ NextSock(s)
  /\ attempt \in 1..(MAX_RETRIES - 1)
  /\ ~Dialing
  /\ Set(newAttempt(St, s))

\* the 'connect' event
onConnect(S, s) ==
  LET S1 == [S EXCEPT !.sock[s].st = "open", !.socket = s,
                      !.connectedDevice = "peer", !.attempt = 0]
      S2 == updateConnectionState(S1, "connected")
  IN IF S.platform = "desktop" THEN setupSocketHandlers(S2) ELSE startKeepalive(S2)

ConnectOk(s) ==
  /\ sock[s].st = "connecting"
  /\ Set(onConnect(St, s))

\* the connection attempt fails: desktop 'error' handler or 5 s timeout of
\* attemptConnection() and the end of connectToDevice(); mobile 'error'
\* handler of connect().
onConnectFail(S, s) ==
  LET S1 == destroy(S, s)
  IN IF S.platform = "desktop"
       THEN IF S.attempt >= MAX_RETRIES
              THEN updateConnectionState([S1 EXCEPT !.attempt = 0], "disconnected")
              ELSE S1
       ELSE updateConnectionState([S1 EXCEPT !.attempt = 0], "disconnected")

ConnectFail(s) ==
  /\ sock[s].st = "connecting"
  /\ Set(onConnectFail(St, s))

\* ------------------------------------------------------------------------
\* Socket events and disconnect
\* ------------------------------------------------------------------------
\* the handlers of the 'close' event
onClose(S, s) ==
  LET h == S.sock[s].hnd
      S0 == IF S.socket = s THEN markLost(S) ELSE S
  IN CASE h \in {"mgr", "cli"} -> disconnect(S0)
       [] h = "srv" ->
            LET S1 == stopKeepalive(S0)
            IN IF S1.socket = s
                 THEN updateConnectionState(
                        [S1 EXCEPT !.socket = 0, !.connectedDevice = "null"], "disconnected")
                 ELSE S1
       [] OTHER -> S0

CloseEvent(s) ==
  /\ sock[s].closeEv
  /\ Set(onClose([St EXCEPT !.sock[s].closeEv = FALSE], s))

\* the peer closes the connection: the socket is no longer writable and its
\* 'close' event follows
PeerClose(s) ==
  /\ sock[s].st = "open"
  /\ Set(destroy(St, s))

\* the handlers of the 'error' event of a connected socket; the socket is
\* destroyed and its 'close' event follows
onError(S, s) ==
  LET h == S.sock[s].hnd
  IN CASE h = "mgr" -> disconnect(IF S.socket = s THEN markLost(S) ELSE S)
       [] h = "cli" -> updateConnectionState(S, "disconnected")
       [] OTHER -> S

ErrorEvent(s) ==
  /\ sock[s].st = "open"
  /\ Set(onError(destroy(St, s), s))

\* the host calls disconnect()
Disconnect ==
  Set(disconnect(IF socket # 0 THEN markLost(St) ELSE St))

\* ------------------------------------------------------------------------
\* sendFile
\* ------------------------------------------------------------------------
NextCall(c) == calls[c].st = "idle" /\ \A d \in CallIds : d < c => calls[d].st # "idle"

return(S, c, v) == [S EXCEPT !.calls[c].st = "returned", !.calls[c].result = v]

\* return await transferComplete
awaitTransferComplete(S, c) ==
  IF S.calls[c].tc # "none" THEN return(S, c, S.calls[c].tc)
  ELSE [S EXCEPT !.calls[c].st = "awaiting"]

\* the catch block of sendFile
sendFileCatch(S, c) == return([S EXCEPT !.sendFileResolver = 0], c, "false")

\* sendFile up to its first await: desktop awaits fs.promises.stat before it
\* stores the resolver, mobile stores the resolver first
sendFileEnter(S, c, large) ==
  IF S.socket = 0 \/ S.connectedDevice = "null"
    THEN return(S, c, "false")
    ELSE LET S1 == [S EXCEPT !.calls[c].st = "stat", !.calls[c].large = large]
         IN IF S.platform = "desktop" THEN S1 ELSE [S1 EXCEPT !.sendFileResolver = c]

SendFileCall(c) ==
  /\ NextCall(c)
  /\ \E large \in BOOLEAN : Set(sendFileEnter(St, c, large))

\* sendFile after stat: desktop stores the resolver and reads the file
\* (small) or hashes it and starts the HTTP file server (large); mobile reads
\* the file (small) or emits the file_request with checksum size:N (large)
sendFileAfterStat(S, c, ok) ==
  IF ~ok THEN sendFileCatch(S, c)
  ELSE IF S.platform = "desktop"
         THEN [S EXCEPT !.sendFileResolver = c,
                        !.calls[c].st = IF S.calls[c].large THEN "hashing" ELSE "reading"]
         ELSE IF S.calls[c].large
                THEN awaitTransferComplete(
                       [S EXCEPT !.pendingFileRequest = c, !.pendingFileUri = TRUE,
                                 !.pendingFileData = FALSE], c)
                ELSE [S EXCEPT !.calls[c].st = "reading"]

SendFileStat(c) ==
  /\ calls[c].st = "stat"
  /\ \E ok \in BOOLEAN : Set(sendFileAfterStat(St, c, ok))

\* sendFile after readFile (small file): emit file_request, remember it
sendFileAfterRead(S, c, ok) ==
  IF ~ok THEN sendFileCatch(S, c)
  ELSE awaitTransferComplete(
         [S EXCEPT !.pendingFileRequest = c,
                   !.pendingFileData = IF S.platform = "mobile" THEN TRUE ELSE @], c)

SendFileRead(c) ==
  /\ calls[c].st = "reading"
  /\ \E ok \in BOOLEAN : Set(sendFileAfterRead(St, c, ok))

\* desktop sendFile after computeStreamingChecksum and startHttpFileServer
sendFileAfterHttpServer(S, c, ok) ==
  IF ~ok THEN sendFileCatch(S, c)
  ELSE awaitTransferComplete(
         [S EXCEPT !.httpServer = TRUE, !.pendingFileRequest = c,
                   !.httpSendingRequestId = c], c)

SendFileHttpServer(c) ==
  /\ calls[c].st = "hashing"
  /\ \E ok \in BOOLEAN : Set(sendFileAfterHttpServer(St, c, ok))

\* ------------------------------------------------------------------------
\* Incoming frames
\* ------------------------------------------------------------------------
\* desktop handleFileAccept(); ok is the outcome of reading and sending the file
handleFileAcceptDesktop(S, ok) ==
  IF S.pendingFileRequest = 0 \/ S.connectedDevice = "null" THEN S
  ELSE LET S1 == [S EXCEPT !.transferActive = TRUE]
       IN IF S1.httpSendingRequestId # 0 THEN S1
          ELSE IF ok
            THEN resolveSendFile(
                   [S1 EXCEPT !.pendingFileRequest = 0, !.lastPongReceived = S.now,
                              !.graceTimers = @ + 1], "true")
            ELSE resolveSendFile(
                   [S1 EXCEPT !.pendingFileRequest = 0, !.transferActive = FALSE,
                              !.lastPongReceived = S.now], "false")

\* mobile handleFileAccept(); ok is the outcome of the HTTP upload
handleFileAcceptMobile(S, uploadUrl, ok) ==
  IF S.pendingFileRequest = 0 \/ S.connectedDevice = "null" THEN S
  ELSE LET S1 == [S EXCEPT !.transferActive = TRUE]
           done == [S1 EXCEPT !.pendingFileRequest = 0, !.transferActive = FALSE,
                              !.lastPongReceived = S.now]
       IN IF uploadUrl /\ S1.pendingFileUri
            THEN IF ok
                   THEN [S1 EXCEPT !.httpSendingRequestId = S.pendingFileRequest,
                                   !.pendingFileUri = FALSE]
                   ELSE [done EXCEPT !.pendingFileUri = FALSE, !.httpSendingRequestId = 0]
            ELSE IF S1.pendingFileData
                   THEN resolveSendFile([done EXCEPT !.pendingFileData = FALSE], "true")
                   ELSE IF S1.pendingFileUri
                          THEN resolveSendFile([done EXCEPT !.pendingFileUri = FALSE], "true")
                          ELSE S1

\* handleFileAck()
handleFileAck(S, requestId, success) ==
  IF S.httpSendingRequestId = requestId /\ S.pendingFileRequest # 0
       /\ S.connectedDevice # "null"
    THEN LET S1 == IF S.platform = "desktop" THEN shutdownHttpServer(S) ELSE S
         IN resolveSendFile(
              [S1 EXCEPT !.pendingFileRequest = 0, !.httpSendingRequestId = 0,
                         !.transferActive = FALSE, !.lastPongReceived = S.now],
              IF success THEN "true" ELSE "false")
    ELSE S

\* handlePairingMessage() for a pair_request while no passphrase is queued
handlePairRequestNoPassphrase(S) ==
  updateConnectionState([S EXCEPT !.connectedDevice = "peer"], "pairing")

\* handleMessage()
handleMessage(S, type, requestId, flag, ok) ==
  LET S1 == [S EXCEPT !.lastPongReceived = S.now]
  IN CASE type = "pair_request" -> handlePairRequestNoPassphrase(S1)
       [] type = "file_accept" ->
            IF S.platform = "desktop" THEN handleFileAcceptDesktop(S1, ok)
            ELSE handleFileAcceptMobile(S1, flag, ok)
       [] type = "file_ack" -> handleFileAck(S1, requestId, flag)
       [] OTHER -> S1

\* the 'data' event of a socket delivering one whole frame
RecvFrame(s) ==
  /\ Live(s)
  /\ \/ \E type \in {"ping", "pair_request"} : Set(handleMessage(St, type, 0, FALSE, FALSE))
     \/ \E flag \in BOOLEAN, ok \in BOOLEAN :
          Set(handleMessage(St, "file_accept", 0, flag, ok))
     \/ \E requestId \in CallIds, flag \in BOOLEAN :
          Set(handleMessage(St, "file_ack", requestId, flag, FALSE))

\* desktop: the 120 s timer set at the end of handleFileAccept() fires
GraceTimer ==
  /\ graceTimers > 0
  /\ Set([St EXCEPT !.graceTimers = @ - 1, !.transferActive = FALSE,
                    !.lastPongReceived = now])

Tick ==
  /\ now < MaxTicks * TickMs
  /\ Set([St EXCEPT !.now = @ + TickMs])

\* ------------------------------------------------------------------------
\* Receiving a file: chunk path (in memory and streaming) and HTTP paths
\* ------------------------------------------------------------------------
CHUNK_SIZE == 64 * 1024
LARGE_FILE == 5 * 1024 * 1024
WRITE_BUFFER_THRESHOLD == 512 * 1024

\* Bounds of the receive model
MaxContents == 2
MaxIndex == 1
MaxRequests == 2
MaxChunkMsgs == 2
MaxCompletes == 1
MaxHttp == 1

\* Byte strings are sequences of blocks; a block is n bytes with content c
\* (two blocks of the same length and different c are different bytes).
Contents == 0..(MaxContents - 1)
Blocks == [n : {CHUNK_SIZE, WRITE_BUFFER_THRESHOLD}, c : Contents]
NoBlock == [n |-> 0, c |-> 0]
Indexes == 0..MaxIndex
Bodies == {<<[n |-> m, c |-> k]>> : m \in {LARGE_FILE + 1, LARGE_FILE + 2}, k \in Contents}
FileSizes == {CHUNK_SIZE, CHUNK_SIZE + 1, LARGE_FILE + 1}

RECURSIVE DataLen(_)
DataLen(d) == IF d = <<>> THEN 0 ELSE Head(d).n + DataLen(Tail(d))

\* calculateChecksum() and IncrementalChecksum.digest(): a 16-byte truncated
\* hash of the bytes; many byte strings share a digest.
RECURSIVE hashBlocks(_, _)
hashBlocks(h, d) ==
  IF d = <<>> THEN h
  ELSE hashBlocks((h * 31 + Head(d).n + 7 * Head(d).c + 1) % 65521, Tail(d))

calculateChecksum(d) == hashBlocks(17, d)

\* file_request.checksum is a digest or the string "size:" + decimal digits
DigestTag(h) == [kind |-> "digest", h |-> h, digits |-> <<>>]
SizeTag(ds) == [kind |-> "size", h |-> 0, digits |-> ds]

\* String(n): the decimal digits of n
RECURSIVE toDecimal(_)
toDecimal(n) == IF n < 10 THEN <<n>> ELSE Append(toDecimal(n \div 10), n % 10)

\* parseInt(s, 10) of a digit string; -1 stands for NaN (equal to no count)
RECURSIVE parseDigits(_, _)
parseDigits(acc, ds) ==
  IF ds = <<>> THEN acc ELSE parseDigits(acc * 10 + Head(ds), Tail(ds))

parseInt(ds) == IF ds = <<>> THEN -1 ELSE parseDigits(0, ds)

\* what a sender puts in file_request.checksum for a file of fileSize bytes:
\* the tag size:<fileSize> or the digest of the file
RequestChecksums(fileSize) ==
  {SizeTag(toDecimal(fileSize)),
   DigestTag(calculateChecksum(<<[n |-> fileSize, c |-> 0]>>))}

NoInfo == [set |-> FALSE, fileSize |-> 0, totalChunks |-> 0, checksum |-> DigestTag(0)]
NoHasher == [set |-> FALSE, data |-> <<>>]
NoComplete == [active |-> FALSE, checksum |-> DigestTag(0)]
NoServer == [open |-> FALSE, expectedChecksum |-> DigestTag(0)]
NoDownload == [active |-> FALSE, id |-> 0, fileSize |-> 0, checksum |-> DigestTag(0)]

NoXfer ==
  [connectedDevice |-> FALSE,
   transferActive |-> FALSE,
   receivingFileInfo |-> NoInfo,
   receivingStreaming |-> FALSE,
   receivingChunks |-> [i \in Indexes |-> NoBlock],
   receivingHasher |-> NoHasher,
   receivingWriteStream |-> "null",   \* desktop: "null" | "open" | "ended"
   receivingTempPath |-> FALSE,
   tempFile |-> <<>>,                 \* bytes of the file at receivingTempPath
   receivingBytesWritten |-> 0,
   writeBuffer |-> <<>>,              \* mobile: writeBufferPartsRef
   completing |-> NoComplete,         \* a handleFileComplete() at its await
   httpReceivingRequestId |-> 0,
   httpServer |-> NoServer,           \* desktop: the upload server
   download |-> NoDownload,           \* mobile: RNFS.downloadFile in flight
   history |-> {},                    \* onTransferComplete(transfer) calls
   posts |-> {},                      \* desktop: how each POST to the upload URL ended
   lost |-> FALSE,                    \* the transfer of receivingFileInfo was
                                      \* in flight when a connection was lost
   nReq |-> 0, nChunk |-> 0, nComplete |-> 0, nHttp |-> 0]

\* a receive FileTransfer handed to onTransferComplete: file is the bytes of
\* the saved file, size the recorded fileSize, checksum the value the
\* verifier was given, fileSize the file_request's fileSize
Transfer(via, file, size, checksum, fileSize) ==
  [via |-> via, file |-> file, size |-> size, checksum |-> checksum,
   fileSize |-> fileSize]

ceilDiv(a, b) == (a + b - 1) \div b

receivingFileInfoOf(fileSize, checksum) ==
  [set |-> TRUE, fileSize |-> fileSize,
   totalChunks |-> ceilDiv(fileSize, CHUNK_SIZE), checksum |-> checksum]

isLargeFile(fileSize) == fileSize > LARGE_FILE

\* desktop handleFileRequest(); serverOk: startHttpUploadServer() resolved
handleFileRequestDesktop(X, id, fileSize, checksum, httpUrl, serverOk) ==
  IF ~X.connectedDevice THEN X
  ELSE
    LET X1 == [X EXCEPT !.transferActive = TRUE,
                        !.receivingFileInfo = receivingFileInfoOf(fileSize, checksum)]
    IN  IF httpUrl THEN X1
        ELSE IF isLargeFile(fileSize)
          THEN IF serverOk
            THEN [X1 EXCEPT !.httpReceivingRequestId = id,
                            !.httpServer = [open |-> TRUE, expectedChecksum |-> checksum]]
            ELSE [X1 EXCEPT !.httpReceivingRequestId = 0,
                            !.receivingStreaming = TRUE,
                            !.receivingHasher = [set |-> TRUE, data |-> <<>>],
                            !.receivingTempPath = TRUE,
                            !.tempFile = <<>>,
                            !.receivingWriteStream = "open",
                            !.receivingBytesWritten = 0]
          ELSE [X1 EXCEPT !.receivingStreaming = FALSE,
                          !.receivingChunks = [i \in Indexes |-> NoBlock]]

\* mobile handleFileRequest() up to its first await
handleFileRequestMobile(X, id, fileSize, checksum, httpUrl) ==
  LET X1 == [X EXCEPT !.transferActive = TRUE,
                      !.receivingFileInfo = receivingFileInfoOf(fileSize, checksum)]
  IN  IF httpUrl
        THEN [X1 EXCEPT !.download = [active |-> TRUE, id |-> id,
                                      fileSize |-> fileSize, checksum |-> checksum]]
      ELSE IF isLargeFile(fileSize)
        THEN [X1 EXCEPT !.receivingStreaming = TRUE,
                        !.receivingHasher = [set |-> TRUE, data |-> <<>>],
                        !.receivingTempPath = TRUE,
                        !.tempFile = <<>>,
                        !.receivingBytesWritten = 0]
        ELSE [X1 EXCEPT !.receivingStreaming = FALSE,
                        !.receivingChunks = [i \in Indexes |-> NoBlock]]

\* IncrementalChecksum.update()
update(hasher, b) == IF hasher.set THEN [hasher EXCEPT !.data = Append(@, b)] ELSE hasher

\* IncrementalChecksum.digest() of receivingHasher?; -1 stands for undefined
digest(hasher) == IF hasher.set THEN calculateChecksum(hasher.data) ELSE -1

\* mobile flushWriteBuffer(); ok: RNFS.appendFile() succeeded
flushWriteBuffer(X, ok) ==
  IF X.writeBuffer = <<>> THEN X
  ELSE IF ok /\ X.receivingTempPath
    THEN [X EXCEPT !.writeBuffer = <<>>,
                   !.tempFile = @ \o X.writeBuffer,
                   !.receivingBytesWritten = @ + DataLen(X.writeBuffer)]
    ELSE [X EXCEPT !.writeBuffer = <<>>]

handleFileChunkDesktop(X, index, b) ==
  IF X.receivingStreaming
    THEN [X EXCEPT !.receivingHasher = update(@, b),
                   !.tempFile = IF X.receivingWriteStream = "open" THEN Append(@, b) ELSE @,
                   !.receivingBytesWritten = @ + b.n]
    ELSE [X EXCEPT !.receivingChunks[index] = b]

handleFileChunkMobile(X, index, b, ok) ==
  IF X.receivingStreaming
    THEN LET X1 == [X EXCEPT !.receivingHasher = update(@, b),
                             !.writeBuffer = Append(@, b)]
         IN  IF DataLen(X1.writeBuffer) >= WRITE_BUFFER_THRESHOLD
               THEN flushWriteBuffer(X1, ok) ELSE X1
    ELSE [X EXCEPT !.receivingChunks[index] = b]

\* reassembleChunks(): null unless exactly the chunks 0..totalChunks-1 are there
RECURSIVE concatChunks(_, _, _)
concatChunks(chunks, i, totalChunks) ==
  IF i >= totalChunks THEN <<>>
  ELSE <<chunks[i]>> \o concatChunks(chunks, i + 1, totalChunks)

reassembleChunks(chunks, totalChunks) ==
  LET present == {i \in Indexes : chunks[i] # NoBlock}
  IN  IF Cardinality(present) # totalChunks \/ present # 0..(totalChunks - 1)
        THEN [ok |-> FALSE, data |-> <<>>]
        ELSE [ok |-> TRUE, data |-> concatChunks(chunks, 0, totalChunks)]

\* verifyFileIntegrity()
verifyFileIntegrity(data, expectedChecksum) ==
  DigestTag(calculateChecksum(data)) = expectedChecksum

cleanupStreamingReceiveState(X) ==
  [X EXCEPT !.receivingHasher = NoHasher, !.receivingTempPath = FALSE,
            !.receivingWriteStream = "null", !.receivingBytesWritten = 0,
            !.receivingStreaming = FALSE, !.receivingFileInfo = NoInfo,
            !.transferActive = FALSE]

addHistory(X, t) == [X EXCEPT !.history = @ \cup {t}]

\* the last three statements of handleFileComplete()
completeDone(X) == [X EXCEPT !.receivingFileInfo = NoInfo, !.transferActive = FALSE]

\* handleFileComplete() in memory; saveOk: the file was written
handleFileCompleteInMemory(X, checksum, saveOk, mobile) ==
  LET r == reassembleChunks(X.receivingChunks, X.receivingFileInfo.totalChunks)
      cleared == [X EXCEPT !.receivingChunks = [i \in Indexes |-> NoBlock]]
      t == Transfer("chunk", r.data, DataLen(r.data), checksum,
                    X.receivingFileInfo.fileSize)
  IN  IF ~r.ok THEN [cleared EXCEPT !.receivingFileInfo = NoInfo]
      ELSE IF ~verifyFileIntegrity(r.data, checksum)
        THEN [cleared EXCEPT !.receivingFileInfo = NoInfo]
      ELSE IF saveOk \/ mobile THEN completeDone(addHistory(cleared, t))
      ELSE completeDone(cleared)

\* handleFileComplete() up to its first await
handleFileCompleteDesktop(X, checksum, saveOk) ==
  IF ~X.receivingFileInfo.set \/ ~X.connectedDevice THEN X
  ELSE IF X.receivingStreaming
    THEN [X EXCEPT !.receivingWriteStream = IF @ = "open" THEN "ended" ELSE @,
                   !.completing = [active |-> TRUE, checksum |-> checksum]]
    ELSE handleFileCompleteInMemory(X, checksum, saveOk, FALSE)

handleFileCompleteMobile(X, checksum, saveOk, flushOk) ==
  IF ~X.receivingFileInfo.set \/ ~X.connectedDevice THEN X
  ELSE IF X.receivingStreaming
    THEN [flushWriteBuffer(X, flushOk) EXCEPT
            !.completing = [active |-> TRUE, checksum |-> checksum]]
    ELSE handleFileCompleteInMemory(X, checksum, saveOk, TRUE)

\* the streaming branch of handleFileComplete() after its await
streamingVerified(computedChecksum, expectedChecksum) == computedChecksum = expectedChecksum

resumeFileCompleteDesktop(X, renameOk) ==
  LET X1 == [X EXCEPT !.completing = NoComplete, !.receivingWriteStream = "null"]
      expected == X.completing.checksum
      t == Transfer("chunk", X.tempFile, X.receivingBytesWritten,
                    expected, X.receivingFileInfo.fileSize)
  IN  IF ~streamingVerified(DigestTag(digest(X.receivingHasher)), expected)
        THEN cleanupStreamingReceiveState(X1)
      ELSE IF renameOk /\ X.receivingFileInfo.set /\ X.connectedDevice
        THEN completeDone(cleanupStreamingReceiveState(addHistory(X1, t)))
      ELSE completeDone(cleanupStreamingReceiveState(X1))

resumeFileCompleteMobile(X, moveOk) ==
  LET X1 == [X EXCEPT !.completing = NoComplete]
      expected == X.completing.checksum
      t == Transfer("chunk", X.tempFile, X.receivingBytesWritten,
                    expected, X.receivingFileInfo.fileSize)
      cleaned(Y) == [Y EXCEPT !.receivingHasher = NoHasher,
                              !.receivingTempPath = FALSE,
                              !.receivingBytesWritten = 0,
                              !.receivingStreaming = FALSE,
                              !.writeBuffer = <<>>]
  IN  IF ~streamingVerified(DigestTag(digest(X.receivingHasher)), expected)
        THEN [X1 EXCEPT !.receivingFileInfo = NoInfo,
                        !.receivingHasher = NoHasher,
                        !.receivingTempPath = FALSE,
                        !.receivingStreaming = FALSE]
      ELSE IF moveOk /\ X.connectedDevice
        THEN completeDone(cleaned(addHistory(X1, t)))
      ELSE completeDone(cleaned(X1))

\* finalizeUpload(): size comparison for a "size:" tag, digest otherwise
uploadVerified(bytesReceived, computedChecksum, expectedChecksum) ==
  IF expectedChecksum.kind = "size"
    THEN bytesReceived = parseInt(expectedChecksum.digits)
    ELSE computedChecksum = expectedChecksum.h

\* res.writeHead(status) and the file_ack sent with it ("none": no file_ack)
respond(X, status, ack) ==
  [X EXCEPT !.posts = @ \cup {[status |-> status, ack |-> ack]}]

\* desktop finalizeUpload() of the POST body; renameOk: temp moved to final
finalizeUpload(X, body, renameOk) ==
  LET expectedChecksum == X.httpServer.expectedChecksum
      bytesReceived == DataLen(body)
      t == Transfer("upload", body, bytesReceived, expectedChecksum,
                    X.receivingFileInfo.fileSize)
      done(Y) == [Y EXCEPT !.httpReceivingRequestId = 0,
                           !.receivingFileInfo = NoInfo,
                           !.transferActive = FALSE,
                           !.httpServer = NoServer]
  IN  IF ~uploadVerified(bytesReceived, calculateChecksum(body), expectedChecksum)
        THEN respond(done(X), 400,
                     IF X.httpReceivingRequestId # 0 THEN "false" ELSE "none")
      ELSE IF ~renameOk THEN respond(X, 500, "none")
      ELSE IF X.httpReceivingRequestId # 0 /\ X.connectedDevice /\ X.receivingFileInfo.set
        THEN respond(done(addHistory(X, t)), 200, "true")
      ELSE respond(X, 200, "none")

\* desktop handleMultipartUpload() at the end of the request; extractOk:
\* extractMultipartFileContent() found the file part; writeOk: the temp file
\* was written
handleMultipartUpload(X, body, extractOk, writeOk, renameOk) ==
  IF ~extractOk THEN respond(X, 400, "none")
  ELSE IF ~writeOk THEN respond(X, 500, "none")
  ELSE finalizeUpload(X, body, renameOk)

\* a receiver that skips the size comparison of the download
downloadVerifiedUnchecked(statSize, fileSize) == TRUE

\* mobile handleFileRequest(), httpUrl branch: stat.size against fileSize
downloadVerified(statSize, fileSize) == statSize = fileSize

\* mobile handleFileRequest() after RNFS.downloadFile() settled
resumeDownload(X, statusCode, body, moveOk) ==
  LET d == X.download
      t == Transfer("download", body, d.fileSize, d.checksum, d.fileSize)
      done(Y) == [Y EXCEPT !.download = NoDownload,
                           !.receivingFileInfo = NoInfo,
                           !.transferActive = FALSE]
  IN  IF statusCode # 200 THEN done(X)
      ELSE IF ~downloadVerified(DataLen(body), d.fileSize) THEN done(X)
      ELSE IF moveOk /\ X.connectedDevice THEN done(addHistory(X, t))
      ELSE done(X)

\* disconnect() as far as the receive state goes
disconnectReceiver(X) ==
  [X EXCEPT !.connectedDevice = FALSE, !.transferActive = FALSE,
            !.httpServer = IF platform = "desktop" THEN NoServer ELSE @]

\* the checksums a file_complete may carry: of the bytes sent as chunks so
\* far, of the bytes on disk, or of no bytes, or the tag size:<fileSize> that
\* the mobile's streamed chunk send repeats from its file_request
CompleteChecksums(X) ==
  {DigestTag(h) : h \in
     {calculateChecksum(<<>>), calculateChecksum(X.receivingHasher.data),
      calculateChecksum(X.tempFile),
      calculateChecksum(reassembleChunks(X.receivingChunks,
                                         X.receivingFileInfo.totalChunks).data)}}
  \cup {SizeTag(toDecimal(X.receivingFileInfo.fileSize))}

DeviceConnected ==
  /\ ~xfer.connectedDevice
  /\ xfer' = [xfer EXCEPT !.connectedDevice = TRUE]
  /\ UNCHANGED <<mgrVars, codec, pair, ka, snd, conn, rec, store, recv>>

DeviceDisconnected ==
  /\ xfer.connectedDevice
  /\ xfer' = [disconnectReceiver(xfer) EXCEPT
                !.lost = @ \/ xfer.receivingFileInfo.set]
  /\ UNCHANGED <<mgrVars, codec, pair, ka, snd, conn, rec, store, recv>>

RecvFileRequest ==
  /\ xfer.nReq < MaxRequests
  /\ ~xfer.download.active
  /\ \E fileSize \in FileSizes, httpUrl, serverOk \in BOOLEAN :
     \E checksum \in RequestChecksums(fileSize) :
       LET X == [xfer EXCEPT !.nReq = @ + 1]
           \* a request that is taken starts a new transfer
           N == [X EXCEPT !.lost = FALSE]
       IN  xfer' = IF platform = "desktop"
                     THEN IF X.connectedDevice
                            THEN handleFileRequestDesktop(N, X.nReq, fileSize, checksum, httpUrl, serverOk)
                            ELSE handleFileRequestDesktop(X, X.nReq, fileSize, checksum, httpUrl, serverOk)
                     ELSE handleFileRequestMobile(N, X.nReq, fileSize, checksum, httpUrl)
  /\ UNCHANGED <<mgrVars, codec, pair, ka, snd, conn, rec, store, recv>>

RecvFileChunk ==
  /\ xfer.nChunk < MaxChunkMsgs
  /\ \E index \in Indexes, b \in Blocks, ok \in BOOLEAN :
       LET X == [xfer EXCEPT !.nChunk = @ + 1]
       IN  xfer' = IF platform = "desktop"
                     THEN handleFileChunkDesktop(X, index, b)
                     ELSE handleFileChunkMobile(X, index, b, ok)
  /\ UNCHANGED <<mgrVars, codec, pair, ka, snd, conn, rec, store, recv>>

\* the file_chunk frames of a whole large file arrive one after the other,
\* as the sender's streamed chunk send writes them; b is their data taken
\* together
RecvFileChunks ==
  /\ xfer.nChunk < MaxChunkMsgs
  /\ \E c \in Contents :
       LET b == [n |-> LARGE_FILE + 1, c |-> c]
           X == [xfer EXCEPT !.nChunk = @ + 1]
       IN  xfer' = IF platform = "desktop"
                     THEN handleFileChunkDesktop(X, 0, b)
                     ELSE handleFileChunkMobile(X, 0, b, TRUE)
  /\ UNCHANGED <<mgrVars, codec, pair, ka, snd, conn, rec, store, recv>>

RecvFileComplete ==
  /\ xfer.nComplete < MaxCompletes
  /\ ~xfer.completing.active
  /\ \E checksum \in CompleteChecksums(xfer), saveOk, flushOk \in BOOLEAN :
       LET X == [xfer EXCEPT !.nComplete = @ + 1]
       IN  xfer' = IF platform = "desktop"
                     THEN handleFileCompleteDesktop(X, checksum, saveOk)
                     ELSE handleFileCompleteMobile(X, checksum, saveOk, flushOk)
  /\ UNCHANGED <<mgrVars, codec, pair, ka, snd, conn, rec, store, recv>>

ResumeFileComplete ==
  /\ xfer.completing.active
  /\ \E ok \in BOOLEAN :
       xfer' = IF platform = "desktop"
                 THEN resumeFileCompleteDesktop(xfer, ok)
                 ELSE resumeFileCompleteMobile(xfer, ok)
  /\ UNCHANGED <<mgrVars, codec, pair, ka, snd, conn, rec, store, recv>>

\* desktop: a POST to the upload URL has ended
HttpUpload ==
  /\ platform = "desktop"
  /\ xfer.httpServer.open
  /\ xfer.nHttp < MaxHttp
  /\ \E body \in Bodies, extractOk, writeOk, renameOk \in BOOLEAN :
       xfer' = handleMultipartUpload([xfer EXCEPT !.nHttp = @ + 1], body,
                                     extractOk, writeOk, renameOk)
  /\ UNCHANGED <<mgrVars, codec, pair, ka, snd, conn, rec, store, recv>>

\* mobile: the download of httpUrl has settled
DownloadDone ==
  /\ platform = "mobile"
  /\ xfer.download.active
  /\ \E statusCode \in {200, 404}, body \in Bodies, moveOk \in BOOLEAN :
       xfer' = resumeDownload(xfer, statusCode, body, moveOk)
  /\ UNCHANGED <<mgrVars, codec, pair, ka, snd, conn, rec, store, recv>>

\* ------------------------------------------------------------------------
\* Wire codec: serializeMessage, getMessageLength, deserializeMessage and
\* MessageBuffer
\* ------------------------------------------------------------------------
HEADER_LENGTH == 5
MAX_MESSAGE_SIZE == 10 * 1024 * 1024

\* Bounds of the codec model
MaxMsgs == 2
MaxPieces == 3
MaxCut == 5
\* the connections one manager has, one after the other
MaxConnections == 2

\* A Uint8Array is a sequence of runs: k bytes of value b.  Adjacent runs
\* have different byte values, so equal arrays are equal sequences.
run(b, k) == IF k <= 0 THEN <<>> ELSE <<[b |-> b, k |-> k]>>

RECURSIVE length(_)
length(a) == IF a = <<>> THEN 0 ELSE Head(a).k + length(Tail(a))

\* new Uint8Array(a.length + b.length) filled with a then b
concat(a, b) ==
  IF a = <<>> THEN b
  ELSE IF b = <<>> THEN a
  ELSE IF a[Len(a)].b = Head(b).b
    THEN SubSeq(a, 1, Len(a) - 1)
           \o <<[b |-> Head(b).b, k |-> a[Len(a)].k + Head(b).k]>> \o Tail(b)
    ELSE a \o b

\* a.slice(0, n)
RECURSIVE take(_, _)
take(a, n) ==
  IF n <= 0 \/ a = <<>> THEN <<>>
  ELSE IF Head(a).k <= n THEN <<Head(a)>> \o take(Tail(a), n - Head(a).k)
  ELSE <<[b |-> Head(a).b, k |-> n]>>

\* a.slice(n)
RECURSIVE drop(_, _)
drop(a, n) ==
  IF n <= 0 \/ a = <<>> THEN a
  ELSE IF Head(a).k <= n THEN drop(Tail(a), n - Head(a).k)
  ELSE <<[b |-> Head(a).b, k |-> Head(a).k - n]>> \o Tail(a)

slice(a, start, end) == take(drop(a, start), end - start)

\* a[i]
RECURSIVE byteAt(_, _)
byteAt(a, i) == IF i < Head(a).k THEN Head(a).b ELSE byteAt(Tail(a), i - Head(a).k)

\* DataView.setUint32(0, n, false)
setUint32(n) ==
  concat(concat(run((n \div 16777216) % 256, 1), run((n \div 65536) % 256, 1)),
         concat(run((n \div 256) % 256, 1), run(n % 256, 1)))

\* DataView.getUint32(0, false); a value of 2^31 or more is given as
\* 2^31 - 1 (the code only compares it with MAX_MESSAGE_SIZE and buffer lengths)
getUint32(a) ==
  IF byteAt(a, 0) >= 128 THEN 2147483647
  ELSE byteAt(a, 0) * 16777216 + byteAt(a, 1) * 65536 + byteAt(a, 2) * 256 + byteAt(a, 3)

MessageTypes ==
  <<"ping", "pong", "pair_request", "pair_challenge", "pair_response",
    "pair_confirm", "pair_reject", "text", "file_request", "file_accept",
    "file_reject", "file_chunk", "file_complete", "file_ack", "error">>

\* MESSAGE_TYPE_CODES[type] || 0xff
typeCode(type) ==
  CASE type = "ping" -> 1
    [] type = "pong" -> 2
    [] type = "pair_request" -> 16
    [] type = "pair_challenge" -> 17
    [] type = "pair_response" -> 18
    [] type = "pair_confirm" -> 19
    [] type = "pair_reject" -> 20
    [] type = "text" -> 32
    [] type = "file_request" -> 48
    [] type = "file_accept" -> 49
    [] type = "file_reject" -> 50
    [] type = "file_chunk" -> 51
    [] type = "file_complete" -> 52
    [] OTHER -> 255

\* A message is its type, its id and n characters of content.  Its JSON text
\* is one byte naming the type, one byte naming the id and n filler bytes.
MsgIds == {1, 2}
FILLER == 97
NoMessage == [type |-> "null", id |-> 0, n |-> 0]

typeTag(type) == CHOOSE i \in 1..Len(MessageTypes) : MessageTypes[i] = type

\* new TextEncoder().encode(JSON.stringify(message))
stringify(message) ==
  concat(concat(run(typeTag(message.type), 1), run(message.id, 1)),
         run(FILLER, message.n))

\* JSON.parse(new TextDecoder().decode(bytes)); NoMessage when it throws
parse(bytes) ==
  IF length(bytes) < 2 THEN NoMessage
  ELSE LET t == byteAt(bytes, 0)
           i == byteAt(bytes, 1)
           n == length(bytes) - 2
       IN  IF t \in 1..Len(MessageTypes) /\ i \in MsgIds
              /\ slice(bytes, 2, length(bytes)) = run(FILLER, n)
             THEN [type |-> MessageTypes[t], id |-> i, n |-> n]
             ELSE NoMessage

serializeMessage(message) ==
  LET payloadBytes == stringify(message)
  IN  concat(concat(setUint32(length(payloadBytes)), run(typeCode(message.type), 1)),
             payloadBytes)

deserializeMessage(buffer) ==
  IF length(buffer) < HEADER_LENGTH THEN NoMessage
  ELSE LET payloadLength == getUint32(buffer)
       IN  IF length(buffer) < HEADER_LENGTH + payloadLength THEN NoMessage
           ELSE parse(slice(buffer, HEADER_LENGTH, HEADER_LENGTH + payloadLength))

\* a parser that takes the length field for the length of the whole frame
getMessageLengthOfPayload(header) ==
  IF length(header) < 4 THEN -1
  ELSE IF getUint32(header) > MAX_MESSAGE_SIZE THEN -1
  ELSE getUint32(header)

\* getMessageLength(); -1 stands for null
getMessageLength(header) ==
  IF length(header) < 4 THEN -1
  ELSE IF getUint32(header) > MAX_MESSAGE_SIZE THEN -1
  ELSE HEADER_LENGTH + getUint32(header)

\* MessageBuffer.extractMessage(): the message (or NoMessage for null) and
\* the buffer left
extractMessage(buffer) ==
  LET len == getMessageLength(buffer)
  IN  IF len = -1 \/ length(buffer) < len
        THEN [message |-> NoMessage, buffer |-> buffer]
        ELSE [message |-> deserializeMessage(take(buffer, len)),
              buffer |-> drop(buffer, len)]

\* MessageBuffer.extractAllMessages()
RECURSIVE extractAllMessages(_)
extractAllMessages(buffer) ==
  LET r == extractMessage(buffer)
  IN  IF r.message = NoMessage THEN [messages |-> <<>>, buffer |-> r.buffer]
      ELSE LET rest == extractAllMessages(r.buffer)
           IN  [messages |-> <<r.message>> \o rest.messages, buffer |-> rest.buffer]

\* the messages a peer frames: short ones, a text whose JSON is exactly
\* MAX_MESSAGE_SIZE bytes and a text one byte longer
Messages ==
  [type : {"ping"}, id : MsgIds, n : {0}]
    \cup [type : {"file_ack"}, id : {1}, n : {0}]
    \cup [type : {"text"}, id : {1}, n : {MAX_MESSAGE_SIZE - 2, MAX_MESSAGE_SIZE - 1}]

NoCodec ==
  [sent |-> <<>>,          \* the messages framed so far, in order
   wire |-> <<>>,          \* framed bytes not yet delivered to the receiver
   buffer |-> <<>>,        \* MessageBuffer.buffer
   received |-> <<>>,      \* the messages handed to handleMessage, in order
   open |-> TRUE,          \* the receiver's socket is open
   pieces |-> 0,           \* 'data' events so far
   malformed |-> 0,        \* frames written whose payload is not JSON
   connection |-> 1,       \* the connections the manager has had, this one included
   splitInside |-> FALSE]  \* some 'data' event ended inside a frame

\* the ends of the runs of a, as offsets
RECURSIVE runEnds(_, _)
runEnds(a, off) ==
  IF a = <<>> THEN {off} ELSE {off} \cup runEnds(Tail(a), off + Head(a).k)

\* the sizes of the next 'data' event: TCP may cut the stream anywhere; the
\* cuts tried are those within MaxCut bytes of where the byte value changes
cutLens(a) ==
  {k \in UNION {(p - MaxCut)..(p + MaxCut) : p \in runEnds(a, 0)} :
     k >= 1 /\ k <= length(a)}

\* a peer frames message and writes it to its socket
SendFrame ==
  /\ Len(codec.sent) + codec.malformed < MaxMsgs
  /\ \E message \in Messages :
       codec' = [codec EXCEPT !.sent = Append(@, message),
                              !.wire = concat(@, serializeMessage(message))]
  /\ UNCHANGED <<mgrVars, xfer, pair, ka, snd, conn, rec, store, recv>>

\* a whole frame whose payload JSON.parse rejects: the header of a text
\* message and two bytes that are no JSON text
malformedFrame == concat(concat(setUint32(2), run(typeCode("text"), 1)), run(0, 2))

\* a peer writes a frame that serializeMessage did not produce
SendMalformedFrame ==
  /\ Len(codec.sent) + codec.malformed < MaxMsgs
  /\ codec' = [codec EXCEPT !.malformed = @ + 1,
                            !.wire = concat(@, malformedFrame)]
  /\ UNCHANGED <<mgrVars, xfer, pair, ka, snd, conn, rec, store, recv>>

\* socket.on('data'): messageBuffer.append(data); processMessages()
OnData ==
  /\ codec.open
  /\ codec.pieces < MaxPieces
  /\ \E k \in cutLens(codec.wire) :
       LET data == take(codec.wire, k)
           r == extractAllMessages(concat(codec.buffer, data))
       IN  codec' = [codec EXCEPT !.wire = drop(@, k),
                                  !.buffer = r.buffer,
                                  !.received = @ \o r.messages,
                                  !.pieces = @ + 1,
                                  !.splitInside = @ \/ r.buffer # <<>>]
  /\ UNCHANGED <<mgrVars, xfer, pair, ka, snd, conn, rec, store, recv>>

\* socket.on('close')
SocketClosed ==
  /\ codec.open
  /\ codec' = [codec EXCEPT !.open = FALSE]
  /\ UNCHANGED <<mgrVars, xfer, pair, ka, snd, conn, rec, store, recv>>

\* a peer frames a message without text (ping, file_ack) and writes it to
\* its socket
SendControlFrame ==
  /\ Len(codec.sent) + codec.malformed < MaxMsgs
  /\ \E message \in {m \in Messages : m.n = 0} :
       codec' = [codec EXCEPT !.sent = Append(@, message),
                              !.wire = concat(@, serializeMessage(message))]
  /\ UNCHANGED <<mgrVars, xfer, pair, ka, snd, conn, rec, store, recv>>

\* after disconnect() the manager gets its next connection
\* (handleIncomingConnection or connectToDevice, then setupSocketHandlers):
\* the new socket's 'data' handler appends to the same messageBuffer, which
\* nothing has cleared; sent, wire and received start again for the new
\* connection (pieces goes on counting the 'data' events of the manager)
CodecReconnect ==
  /\ ~codec.open
  /\ codec.connection < MaxConnections
  /\ codec' = [codec EXCEPT !.open = TRUE, !.connection = @ + 1,
                            !.sent = <<>>, !.wire = <<>>, !.received = <<>>,
                            !.splitInside = FALSE]
  /\ UNCHANGED <<mgrVars, xfer, pair, ka, snd, conn, rec, store, recv>>

\* ------------------------------------------------------------------------
\* Pairing: the shared pairing state machine and the two managers that
\* drive it, one peer on each platform, joined by one TCP connection.
\* A DeviceInfo is represented by its id.  The hash functions of the crypto
\* module are modelled as collision-free: a derived key is the tuple of what
\* was hashed, a challenge response the pair of challenge and secret.
\* ------------------------------------------------------------------------
\* startPairing / respondToPairing calls made on the two peers together
MaxPairingCalls == 2
\* distinct values generateChallenge() returns
MaxChallenge == 2
\* sendText calls made on the two peers together
MaxTexts == 1
\* pairing messages a peer receives from a sender that does not follow the
\* protocol
MaxInjected == 1

Peers == {"desktop", "mobile"}
Other(p) == IF p = "desktop" THEN "mobile" ELSE "desktop"
Passphrases == {"p1", "p2"}
NoDevice == "null"
\* id of the placeholder device the mobile server makes from socket.remoteAddress
REMOTE_ADDRESS == "address"
NoSecret == <<>>

deriveSharedSecretUnsorted(passphrase, deviceId1, deviceId2) ==
  <<passphrase, deviceId1, deviceId2>>

\* Rank is the order Array.prototype.sort() gives the ids as strings
deriveSharedSecret(passphrase, deviceId1, deviceId2) ==
  LET Rank == [address |-> 1, desktop |-> 2, mobile |-> 3]
      sortedIds == IF Rank[deviceId1] <= Rank[deviceId2]
                   THEN <<deviceId1, deviceId2>>
                   ELSE <<deviceId2, deviceId1>>
  IN <<passphrase, sortedIds[1], sortedIds[2]>>

createChallengeResponse(challenge, sharedSecret) ==
  [challenge |-> challenge, secret |-> sharedSecret]

verifyChallengeResponseAlways(challenge, response, sharedSecret) == TRUE

verifyChallengeResponse(challenge, response, sharedSecret) ==
  LET expectedResponse == createChallengeResponse(challenge, sharedSecret)
  IN response = expectedResponse

\* The content of a payload: text as given (sealed FALSE), or the secretbox
\* of it, which only the holder of key can open.
NoContent == [sealed |-> FALSE, key |-> NoSecret, text |-> ""]

encrypt(data, secretKey) == [sealed |-> TRUE, key |-> secretKey, text |-> data]

\* A message of the connection; the fields a type does not carry keep these
\* values.
PairMessage(type) ==
  [type |-> type, deviceInfo |-> NoDevice, challenge |-> 0,
   response |-> [challenge |-> 0, secret |-> NoSecret], reason |-> "",
   content |-> NoContent]

\* createTextMessage: payload.content is the string it was given
createTextMessage(content) ==
  [PairMessage("text") EXCEPT !.content = [NoContent EXCEPT !.text = content]]

NoPairMessage == PairMessage("null")

createPairRequest(localDevice) ==
  [PairMessage("pair_request") EXCEPT !.deviceInfo = localDevice]

\* challenge is the value generateChallenge() drew
createPairChallenge(challenge) ==
  [PairMessage("pair_challenge") EXCEPT !.challenge = challenge]

createPairResponse(challenge, sharedSecret, localDevice) ==
  [PairMessage("pair_response") EXCEPT
     !.response = createChallengeResponse(challenge, sharedSecret),
     !.deviceInfo = localDevice]

createPairConfirm(localDevice) ==
  [PairMessage("pair_confirm") EXCEPT !.deviceInfo = localDevice]

createPairReject(reason) ==
  [PairMessage("pair_reject") EXCEPT !.reason = reason]

\* PairingState; an optional field that is undefined holds NoDevice, "",
\* NoSecret or 0.
createPairingState(localDevice) ==
  [status |-> "idle", localDevice |-> localDevice, remoteDevice |-> NoDevice,
   passphrase |-> "", sharedSecret |-> NoSecret, challenge |-> 0, error |-> ""]

\* currentPairingState = null
NoPairingState == [createPairingState(NoDevice) EXCEPT !.status = "null"]

\* The pure transition function.  passphrase is "" when undefined; challenge
\* is the value generateChallenge() draws if a challenge is created.
handlePairingMessage(state, message, passphrase, challenge) ==
  CASE message.type = "pair_request" ->
         LET remoteDevice == message.deviceInfo IN
         IF passphrase = ""
         THEN [newState |-> [state EXCEPT !.status = "waiting",
                                          !.remoteDevice = remoteDevice],
               response |-> NoPairMessage]
         ELSE LET sharedSecret == deriveSharedSecret(passphrase,
                                    state.localDevice, remoteDevice)
                  challengeMsg == createPairChallenge(challenge)
              IN [newState |-> [state EXCEPT !.status = "verifying",
                                             !.remoteDevice = remoteDevice,
                                             !.passphrase = passphrase,
                                             !.sharedSecret = sharedSecret,
                                             !.challenge = challengeMsg.challenge],
                  response |-> challengeMsg]
    [] message.type = "pair_challenge" ->
         IF passphrase = "" \/ state.remoteDevice = NoDevice
         THEN [newState |-> [state EXCEPT
                               !.status = "failed",
                               !.error = "Missing passphrase or remote device"],
               response |-> NoPairMessage]
         ELSE LET sharedSecret == deriveSharedSecret(passphrase,
                                    state.localDevice, state.remoteDevice)
                  responseMsg == createPairResponse(message.challenge,
                                    sharedSecret, state.localDevice)
              IN [newState |-> [state EXCEPT !.status = "verifying",
                                             !.sharedSecret = sharedSecret],
                  response |-> responseMsg]
    [] message.type = "pair_response" ->
         IF state.sharedSecret = NoSecret \/ state.challenge = 0
         THEN [newState |-> [state EXCEPT !.status = "failed",
                                          !.error = "Invalid pairing state"],
               response |-> NoPairMessage]
         ELSE IF verifyChallengeResponse(state.challenge, message.response,
                                         state.sharedSecret)
         THEN [newState |-> [state EXCEPT !.status = "success",
                                          !.remoteDevice = message.deviceInfo],
               response |-> createPairConfirm(state.localDevice)]
         ELSE [newState |-> [state EXCEPT !.status = "failed",
                                          !.error = "Passphrase mismatch"],
               response |-> createPairReject("Passphrase mismatch")]
    [] message.type = "pair_confirm" ->
         [newState |-> [state EXCEPT !.status = "success"],
          response |-> NoPairMessage]
    [] message.type = "pair_reject" ->
         [newState |-> [state EXCEPT !.status = "failed",
                                     !.error = message.reason],
          response |-> NoPairMessage]
    [] OTHER -> [newState |-> state, response |-> NoPairMessage]

\* A PairedDevice is its id and sharedSecret; null is NoPairedDevice.
NoPairedDevice == [id |-> NoDevice, sharedSecret |-> NoSecret]

createPairedDeviceIfChallenger(state) ==
  IF state.status # "success" \/ state.remoteDevice = NoDevice
       \/ state.sharedSecret = NoSecret \/ state.challenge = 0
  THEN NoPairedDevice
  ELSE [id |-> state.remoteDevice, sharedSecret |-> state.sharedSecret]

createPairedDevice(state) ==
  IF state.status # "success" \/ state.remoteDevice = NoDevice
       \/ state.sharedSecret = NoSecret
  THEN NoPairedDevice
  ELSE [id |-> state.remoteDevice, sharedSecret |-> state.sharedSecret]

\* storage: uniqueness is by id, pairing again overwrites
addPairedDevice(devices, device) ==
  {d \in devices : d.id # device.id} \cup {device}

\* One peer: the pairing fields of its manager, what it has written to the
\* socket (sent), how many of the other peer's messages it has handled, and
\* the calls made on it and messages handled by it, in order (events).
NoPeer(p) ==
  [localDevice |-> p,
   socket |-> FALSE,
   connectedDevice |-> NoDevice,
   connectionState |-> "disconnected",
   error |-> "",
   pendingPassphrase |-> "",
   currentPairingState |-> NoPairingState,
   pendingPairingMessage |-> NoPairMessage,
   pairedDevices |-> {},
   sent |-> <<>>,
   handled |-> 0,
   events |-> <<>>,
   nCalls |-> 0,
   onPairingRequest |-> NoDevice,
   silent |-> 0,
   injected |-> 0,
   history |-> <<>>,
   nTexts |-> 0]

\* sendMessage: nothing without a socket, else the frame is written
pairSendMessage(s, message) ==
  IF ~s.socket THEN s ELSE [s EXCEPT !.sent = Append(@, message)]

\* the status the manager shows while a response of this type is sent
responseStatus(s, response) ==
  IF response.type \in {"pair_challenge", "pair_response", "pair_confirm"}
  THEN [s EXCEPT !.connectionState = "pairing"]
  ELSE s

\* the status the manager shows when it starts to process a message
processingStatus(s, message) ==
  IF message.type \in {"pair_request", "pair_challenge", "pair_response"}
  THEN [s EXCEPT !.connectionState = "pairing"]
  ELSE s

\* the incoming pair_request is kept until the user supplies a passphrase
storePendingPairingMessage(s, message) ==
  LET remoteDevice == message.deviceInfo
      s1 == [s EXCEPT !.pendingPairingMessage = message]
  IN IF remoteDevice # NoDevice
     THEN [s1 EXCEPT !.connectedDevice = remoteDevice,
                     !.connectionState = "pairing",
                     !.onPairingRequest = remoteDevice]
     ELSE s1

\* desktop: ConnectionManager.handlePairingMessage
managerHandlePairingMessage(s, message, challenge) ==
  LET s0 == IF s.currentPairingState = NoPairingState
            THEN [s EXCEPT !.currentPairingState = createPairingState(s.localDevice)]
            ELSE s
  IN IF message.type = "pair_request" /\ s0.pendingPassphrase = ""
     THEN storePendingPairingMessage(s0, message)
     ELSE
       LET s1 == processingStatus(s0, message)
           r == handlePairingMessage(s1.currentPairingState, message,
                                     s1.pendingPassphrase, challenge)
           newState == r.newState
           s2 == [s1 EXCEPT !.currentPairingState = newState]
           s3 == IF r.response # NoPairMessage
                 THEN pairSendMessage(responseStatus(s2, r.response), r.response)
                 ELSE s2
       IN CASE newState.status = "success" ->
                 LET pairedDevice == createPairedDevice(newState) IN
                 IF pairedDevice # NoPairedDevice
                 THEN [s3 EXCEPT
                         !.pairedDevices = addPairedDevice(@, pairedDevice),
                         !.connectedDevice = newState.remoteDevice,
                         !.connectionState = "connected"]
                 ELSE s3
            [] newState.status = "failed" ->
                 [s3 EXCEPT !.connectionState = "disconnected",
                            !.error = newState.error]
            [] newState.status = "waiting" ->
                 [s3 EXCEPT !.connectedDevice = newState.remoteDevice,
                            !.connectionState = "pairing"]
            [] OTHER -> s3

\* mobile: handlePairingMessageCallback.  localDeviceRef is set and the
\* onPairingSuccess callback (addPairedDevice) is registered when the
\* application mounts.
handlePairingMessageCallback(s, message, challenge) ==
  LET s0 == IF s.currentPairingState = NoPairingState
            THEN [s EXCEPT !.currentPairingState = createPairingState(s.localDevice)]
            ELSE s
  IN IF message.type = "pair_request" /\ s0.pendingPassphrase = ""
     THEN storePendingPairingMessage(s0, message)
     ELSE
       LET s1 == processingStatus(s0, message)
           r == handlePairingMessage(s1.currentPairingState, message,
                                     s1.pendingPassphrase, challenge)
           newState == r.newState
           s2 == [s1 EXCEPT !.currentPairingState = newState]
           s3 == IF r.response # NoPairMessage
                 THEN pairSendMessage(responseStatus(s2, r.response), r.response)
                 ELSE s2
       IN CASE newState.status = "success" ->
                 LET pairedDevice == createPairedDevice(newState) IN
                 IF pairedDevice # NoPairedDevice
                 THEN [s3 EXCEPT
                         !.pairedDevices = addPairedDevice(@, pairedDevice),
                         !.connectedDevice = newState.remoteDevice,
                         !.connectionState = "connected"]
                 ELSE s3
            [] newState.status = "failed" ->
                 [s3 EXCEPT !.connectionState = "disconnected",
                            !.error = newState.error]
            [] newState.status = "waiting" ->
                 [s3 EXCEPT !.connectedDevice = newState.remoteDevice,
                            !.connectionState = "pairing"]
            [] OTHER -> s3

\* the handler of the peer's platform
peerHandlePairingMessage(s, message, challenge) ==
  IF s.localDevice = "desktop"
  THEN managerHandlePairingMessage(s, message, challenge)
  ELSE handlePairingMessageCallback(s, message, challenge)

\* handleTextMessage: the same statements on both platforms.  The transfer
\* record handed to onTransferComplete is kept in history.
pairHandleTextMessage(s) ==
  IF s.connectedDevice = NoDevice
  THEN s
  ELSE [s EXCEPT !.history = Append(@, [type |-> "text", direction |-> "receive",
                                        deviceId |-> s.connectedDevice])]

\* handleMessage: the dispatch on the type of a frame
pairHandleMessage(s, message, challenge) ==
  IF message.type = "text"
  THEN pairHandleTextMessage(s)
  ELSE peerHandlePairingMessage(s, message, challenge)

\* sendText: the same statements on both platforms
pairSendText(s) ==
  IF ~s.socket \/ s.connectedDevice = NoDevice
  THEN s
  ELSE [pairSendMessage(s, createTextMessage("hello")) EXCEPT
          !.history = Append(@, [type |-> "text", direction |-> "send",
                                 deviceId |-> s.connectedDevice])]

\* startPairing: the same statements on both platforms
startPairing(s, passphrase) ==
  IF ~s.socket
  THEN s
  ELSE LET s1 == [s EXCEPT
                    !.pendingPassphrase = passphrase,
                    !.currentPairingState =
                       [createPairingState(s.localDevice) EXCEPT
                          !.passphrase = passphrase,
                          !.remoteDevice = s.connectedDevice],
                    !.connectionState = "pairing"]
       IN pairSendMessage(s1, createPairRequest(s.localDevice))

\* respondToPairing: the same statements on both platforms
respondToPairing(s, passphrase, challenge) ==
  LET s1 == [s EXCEPT !.pendingPassphrase = passphrase]
  IN IF s1.pendingPairingMessage # NoPairMessage
     THEN peerHandlePairingMessage(
            [s1 EXCEPT !.pendingPairingMessage = NoPairMessage],
            s1.pendingPairingMessage, challenge)
     ELSE s1

\* the dialling side, when its socket connects to the discovered device
pairDialed(s, device) ==
  [s EXCEPT !.socket = TRUE, !.connectedDevice = device,
            !.connectionState = "connected"]

\* desktop: handleIncomingConnection with no socket yet
pairAcceptedDesktop(s) ==
  [s EXCEPT !.socket = TRUE, !.connectionState = "connecting"]

\* mobile: the server's connection callback
pairAcceptedMobile(s) ==
  [s EXCEPT !.socket = TRUE, !.connectedDevice = REMOTE_ADDRESS,
            !.connectionState = "connected"]

\* Peer d dials the device it discovered; the advertised id is the other
\* peer's localDevice id.
PairConnect(d) ==
  /\ \A p \in Peers : ~pair[p].socket
  /\ pair' = [pair EXCEPT ![d] = pairDialed(@, pair[Other(d)].localDevice),
                          ![Other(d)] = IF d = "mobile" THEN pairAcceptedDesktop(@)
                                        ELSE pairAcceptedMobile(@)]
  /\ UNCHANGED <<mgrVars, xfer, codec, ka, snd, conn, rec, store, recv>>

StartPairing(p, passphrase) ==
  /\ pair[p].socket
  /\ pair["desktop"].nCalls + pair["mobile"].nCalls < MaxPairingCalls
  /\ pair' = [pair EXCEPT ![p] =
       [startPairing(@, passphrase) EXCEPT
          !.nCalls = @ + 1,
          !.silent = 0,
          !.events = Append(@, [op |-> "startPairing", arg |-> passphrase])]]
  /\ UNCHANGED <<mgrVars, xfer, codec, ka, snd, conn, rec, store, recv>>

RespondToPairing(p, passphrase) ==
  /\ pair[p].socket
  /\ pair["desktop"].nCalls + pair["mobile"].nCalls < MaxPairingCalls
  /\ \E challenge \in 1..MaxChallenge :
       pair' = [pair EXCEPT ![p] =
         [respondToPairing(@, passphrase, challenge) EXCEPT
            !.nCalls = @ + 1,
            !.silent = 0,
            !.events = Append(@, [op |-> "respondToPairing", arg |-> passphrase])]]
  /\ UNCHANGED <<mgrVars, xfer, codec, ka, snd, conn, rec, store, recv>>

SendText(p) ==
  /\ pair[p].socket
  /\ pair[p].connectedDevice # NoDevice
  /\ pair["desktop"].nTexts + pair["mobile"].nTexts < MaxTexts
  /\ pair' = [pair EXCEPT ![p] = [pairSendText(@) EXCEPT !.nTexts = @ + 1]]
  /\ UNCHANGED <<mgrVars, xfer, codec, ka, snd, conn, rec, store, recv>>

\* The data handler of peer p takes the next message the other peer wrote.
Deliver(p) ==
  /\ pair[p].handled < Len(pair[Other(p)].sent)
  /\ LET message == pair[Other(p)].sent[pair[p].handled + 1] IN
     \E challenge \in 1..MaxChallenge :
       pair' = [pair EXCEPT ![p] =
         [pairHandleMessage(@, message, challenge) EXCEPT
            !.handled = @ + 1,
            !.silent = IF message.type = "text" THEN @ ELSE 0,
            !.events = Append(@, [op |-> message.type, arg |-> ""])]]
  /\ UNCHANGED <<mgrVars, xfer, codec, ka, snd, conn, rec, store, recv>>

\* ------------------------------------------------------------------------
\* Application keepalive of one connection
\* ------------------------------------------------------------------------
KEEPALIVE_INTERVAL == 5000
KEEPALIVE_TIMEOUT == 120000
\* elapsed times are measured up to this value and saturate there
ELAPSED_CAP == KEEPALIVE_TIMEOUT + 2 * KEEPALIVE_INTERVAL

\* file_accept frames answered by a chunk send that ends with the 120 s timer
MaxGrace == 1
\* the longest step of the clock of SpecKeepalive, in ms
StepMs == 1000

\* sincePong = Date.now() - lastPongReceived, toTick = time until the interval
\* timer fires; byFrame (lastPongReceived is the time of the last inbound
\* frame, or of the connection if there was none), stalled and cause are
\* bookkeeping; later says that the receive in flight began while a 120 s
\* timer of an earlier send was pending.
NoKeepalive ==
  [socket |-> FALSE, keepaliveInterval |-> FALSE, toTick |-> 0, sincePong |-> 0,
   byFrame |-> TRUE, transferActive |-> FALSE, appInForeground |-> TRUE,
   receiving |-> "none", pendingFileRequest |-> FALSE, httpSending |-> FALSE,
   graceTimers |-> 0, later |-> FALSE, stalled |-> FALSE, cause |-> "none"]

\* startKeepalive(): the interval is (re)armed and lastPongReceived = Date.now()
keepaliveStart(K) ==
  [K EXCEPT !.keepaliveInterval = TRUE, !.toTick = KEEPALIVE_INTERVAL, !.sincePong = 0,
            !.byFrame = FALSE]

\* disconnect(): pending send and receive state is left as it is
keepaliveDisconnect(K, cause) ==
  [K EXCEPT !.socket = FALSE, !.keepaliveInterval = FALSE, !.transferActive = FALSE,
            !.later = FALSE, !.cause = cause]

\* the callback with the timeout reached at 120 s sharp
keepaliveCallbackAtTimeout(K) ==
  IF ~K.socket THEN [K EXCEPT !.keepaliveInterval = FALSE]
  ELSE IF ~K.transferActive /\ K.appInForeground /\ K.sincePong >= KEEPALIVE_TIMEOUT
         THEN keepaliveDisconnect(K, "keepalive")
         ELSE [K EXCEPT !.toTick = KEEPALIVE_INTERVAL]

\* the callback startKeepalive() hands to setInterval
keepaliveCallback(K) ==
  IF ~K.socket THEN [K EXCEPT !.keepaliveInterval = FALSE]
  ELSE IF ~K.transferActive /\ K.appInForeground /\ K.sincePong > KEEPALIVE_TIMEOUT
         THEN keepaliveDisconnect(K, "keepalive")
         ELSE [K EXCEPT !.toTick = KEEPALIVE_INTERVAL]

\* handleMessage() as far as the keepalive sees it: every frame resets the
\* clock; flag is httpUrl / large file (file_request), uploadUrl (file_accept);
\* ok is the outcome of the sender's reading and sending
keepaliveHandleMessage(K, type, flag, ok) ==
  LET K1 == [K EXCEPT !.sincePong = 0, !.byFrame = TRUE]
      done == [K1 EXCEPT !.pendingFileRequest = FALSE, !.httpSending = FALSE,
                         !.transferActive = FALSE]
  IN CASE type = "file_request" ->
            [K1 EXCEPT !.transferActive = TRUE,
                       !.receiving = IF flag THEN "http" ELSE "chunks",
                       !.later = K1.graceTimers > 0]
       [] type = "file_complete" ->
            IF K1.receiving = "none" THEN K1
            ELSE [K1 EXCEPT !.receiving = "none", !.transferActive = FALSE,
                            !.later = FALSE]
       [] type = "file_accept" ->
            IF ~K1.pendingFileRequest THEN K1
            ELSE IF platform = "desktop"
              THEN IF K1.httpSending THEN [K1 EXCEPT !.transferActive = TRUE]
                   ELSE IF ok
                     THEN [K1 EXCEPT !.pendingFileRequest = FALSE,
                                     !.transferActive = TRUE, !.graceTimers = @ + 1]
                     ELSE done
              ELSE IF flag /\ ok
                     THEN [K1 EXCEPT !.transferActive = TRUE, !.httpSending = TRUE]
                     ELSE done
       [] type = "file_ack" ->
            IF K1.httpSending /\ K1.pendingFileRequest THEN done ELSE K1
       [] OTHER -> K1

\* a TCP connection is made (dialed or accepted) and startKeepalive() runs
KaConnect ==
  /\ ~ka.socket
  /\ ka' = [keepaliveStart(ka) EXCEPT !.socket = TRUE, !.byFrame = TRUE, !.stalled = FALSE,
                                      !.transferActive = FALSE, !.cause = "none"]
  /\ UNCHANGED <<mgrVars, xfer, codec, pair, snd, conn, rec, store, recv>>

\* time passes: d ms, or less when the interval timer is due before that
KaAdvance(d) ==
  LET e == IF ka.keepaliveInterval /\ ka.toTick < d THEN ka.toTick ELSE d
  IN /\ ka.socket
     /\ e > 0
     /\ ka' = [ka EXCEPT !.toTick = IF ka.keepaliveInterval THEN @ - e ELSE @,
                         !.sincePong = IF @ + e > ELAPSED_CAP THEN ELAPSED_CAP ELSE @ + e]
  /\ UNCHANGED <<mgrVars, xfer, codec, pair, snd, conn, rec, store, recv>>

\* the interval timer fires
KaTick ==
  /\ ka.keepaliveInterval
  /\ ka.toTick = 0
  /\ ka' = keepaliveCallback(ka)
  /\ UNCHANGED <<mgrVars, xfer, codec, pair, snd, conn, rec, store, recv>>

\* a frame of the peer arrives
KaRecv(type, flag, ok) ==
  /\ ka.socket
  /\ ~ka.stalled
  /\ type = "file_accept" /\ platform = "desktop" /\ ~ka.httpSending /\ ok
       => ka.graceTimers < MaxGrace
  /\ ka' = keepaliveHandleMessage(ka, type, flag, ok)
  /\ UNCHANGED <<mgrVars, xfer, codec, pair, snd, conn, rec, store, recv>>

\* the peer stops sending frames for the rest of the connection
KaStall ==
  /\ ka.socket
  /\ ~ka.stalled
  /\ ka' = [ka EXCEPT !.stalled = TRUE]
  /\ UNCHANGED <<mgrVars, xfer, codec, pair, snd, conn, rec, store, recv>>

\* sendFile() up to the file_request; http: the file is served or uploaded over HTTP
KaSendFile(http) ==
  /\ ka.socket
  /\ ka' = [ka EXCEPT !.pendingFileRequest = TRUE,
                      !.httpSending = http /\ platform = "desktop"]
  /\ UNCHANGED <<mgrVars, xfer, codec, pair, snd, conn, rec, store, recv>>

\* the receiver's HTTP transfer (upload to the desktop, download on the
\* mobile) settles, with or without success
KaHttpSettled ==
  /\ ka.receiving = "http"
  /\ ka' = [ka EXCEPT !.receiving = "none", !.transferActive = FALSE, !.sincePong = 0,
                      !.byFrame = FALSE, !.later = FALSE]
  /\ UNCHANGED <<mgrVars, xfer, codec, pair, snd, conn, rec, store, recv>>

\* desktop: the 120 s timer set at the end of handleFileAccept() fires
KaGraceTimer ==
  /\ ka.graceTimers > 0
  /\ ka' = [ka EXCEPT !.graceTimers = @ - 1, !.transferActive = FALSE, !.sincePong = 0,
                      !.byFrame = FALSE]
  /\ UNCHANGED <<mgrVars, xfer, codec, pair, snd, conn, rec, store, recv>>

\* desktop: resetKeepaliveTimer() after a native dialog returned
KaResetKeepaliveTimer ==
  /\ platform = "desktop"
  /\ ka.socket
  /\ ka' = [ka EXCEPT !.sincePong = 0, !.byFrame = FALSE]
  /\ UNCHANGED <<mgrVars, xfer, codec, pair, snd, conn, rec, store, recv>>

\* mobile: AppState changes; on "active" lastPongReceived = Date.now()
KaAppState(active) ==
  /\ platform = "mobile"
  /\ ka.appInForeground # active
  /\ ka' = [ka EXCEPT !.appInForeground = active,
                      !.sincePong = IF active THEN 0 ELSE @,
                      !.byFrame = IF active THEN FALSE ELSE @]
  /\ UNCHANGED <<mgrVars, xfer, codec, pair, snd, conn, rec, store, recv>>

\* the socket closes or the user disconnects
KaDisconnect ==
  /\ ka.socket
  /\ ka' = keepaliveDisconnect(ka, "other")
  /\ UNCHANGED <<mgrVars, xfer, codec, pair, snd, conn, rec, store, recv>>

\* ------------------------------------------------------------------------
\* Sending a file: sendFile(), the peer's answer and handleFileAccept()
\* ------------------------------------------------------------------------
\* sendFile calls made
MaxSendFiles == 2

\* sizes of the files sent
SendSizes == {0, 1, CHUNK_SIZE, 4 * CHUNK_SIZE + 1, LARGE_FILE, LARGE_FILE + 1}
SendIds == 1..MaxSendFiles

NoRequest == [id |-> 0, fileSize |-> 0, httpUrl |-> FALSE]

\* pendingFileData is the length of the data held, -1 for null; requests and
\* accepts are the file_request and file_accept frames on the wire;
\* sendFileResolver is the id of the sendFile call whose resolver is stored
\* (0 for null); results is what each sendFile call returned ("pending" while
\* it awaits transferComplete); senderPath, peerPath, emitted and acks (the
\* success value of the file_ack handled for a request) are bookkeeping.
NoSend ==
  [connectedDevice |-> FALSE,
   nCalls |-> 0,
   pendingFileRequest |-> NoRequest,
   pendingFileChecksum |-> FALSE,
   pendingFileData |-> -1,
   pendingFileUri |-> FALSE,
   pendingFileSize |-> 0,
   httpSendingRequestId |-> 0,
   httpServer |-> FALSE,
   sendFileResolver |-> 0,
   results |-> [i \in SendIds |-> "none"],
   requests |-> <<>>,
   peerHandled |-> 0,
   accepts |-> <<>>,
   acceptsHandled |-> 0,
   senderPath |-> [i \in SendIds |-> "none"],
   peerPath |-> [i \in SendIds |-> "none"],
   emitted |-> {},
   acks |-> [i \in SendIds |-> "none"],
   history |-> {}]

\* chunkFile() with every chunk a multiple of chunkSize long
chunkFileWhole(n, chunkSize) ==
  LET totalChunks == ceilDiv(n, chunkSize)
  IN [i \in 1..totalChunks |-> [index |-> i - 1, total |-> totalChunks, length |-> chunkSize]]

\* chunkFile(): the chunks of data of n bytes, each given by its length
chunkFile(n, chunkSize) ==
  LET totalChunks == ceilDiv(n, chunkSize)
  IN [i \in 1..totalChunks |->
        LET start == (i - 1) * chunkSize
            end == IF start + chunkSize < n THEN start + chunkSize ELSE n
        IN [index |-> i - 1, total |-> totalChunks, length |-> end - start]]

createFileChunk(requestId, index, total, chunkLength) ==
  [type |-> "file_chunk", requestId |-> requestId, chunkIndex |-> index,
   totalChunks |-> total, length |-> chunkLength]

createFileComplete(requestId) ==
  [type |-> "file_complete", requestId |-> requestId, chunkIndex |-> 0,
   totalChunks |-> 0, length |-> 0]

\* the frames of a chunk send of n bytes: the loop over chunkFile() (and the
\* loops of the streamed fallback, which cut 512 KiB reads into the same 64 KiB
\* chunks), then file_complete
chunkFrames(requestId, n) ==
  LET chunks == chunkFile(n, CHUNK_SIZE)
  IN [k \in 1..Len(chunks) |->
        createFileChunk(requestId, chunks[k].index, chunks[k].total, chunks[k].length)]
     \o <<createFileComplete(requestId)>>

\* if (sendFileResolver) { sendFileResolver(v); sendFileResolver = null }:
\* the promise of the call that stored the resolver settles, and that call
\* returns v
sendFileResolve(S, v) ==
  IF S.sendFileResolver = 0 THEN S
  ELSE [S EXCEPT !.results[S.sendFileResolver] = IF @ = "pending" THEN v ELSE @,
                 !.sendFileResolver = 0]

\* the end of a chunk send in handleFileAccept(): transfer record, pending
\* request cleared, promise resolved
chunkSendDone(S, accept, n, path) ==
  LET requestId == S.pendingFileRequest.id
  IN sendFileResolve(
       [S EXCEPT !.emitted = @ \cup {[accept |-> accept.requestId, id |-> requestId,
                                      fileSize |-> n, path |-> path,
                                      msgs |-> chunkFrames(requestId, n)]},
                 !.history = @ \cup {[id |-> requestId, fileSize |-> n, ackOf |-> 0]},
                 !.pendingFileRequest = NoRequest], "true")

\* desktop sendFile(); serverOk: startHttpFileServer() resolved
sendFileDesktop(S, fileSize, serverOk) ==
  LET id == S.nCalls + 1
      S0 == [S EXCEPT !.nCalls = id, !.results[id] = "false"]
      S1 == [S0 EXCEPT !.sendFileResolver = id, !.results[id] = "pending"]
  IN IF ~S.connectedDevice THEN S0
     ELSE IF fileSize < LARGE_FILE
       THEN [S1 EXCEPT !.requests = Append(@, [id |-> id, fileSize |-> fileSize, httpUrl |-> FALSE]),
                       !.pendingFileRequest = [id |-> id, fileSize |-> fileSize, httpUrl |-> FALSE],
                       !.pendingFileChecksum = FALSE,
                       !.senderPath[id] = "memory"]
       ELSE IF serverOk
         THEN [S1 EXCEPT !.requests = Append(@, [id |-> id, fileSize |-> fileSize, httpUrl |-> TRUE]),
                         !.pendingFileRequest = [id |-> id, fileSize |-> fileSize, httpUrl |-> TRUE],
                         !.pendingFileChecksum = TRUE,
                         !.httpServer = TRUE,
                         !.httpSendingRequestId = id,
                         !.senderPath[id] = "http"]
         ELSE [S0 EXCEPT !.sendFileResolver = 0]

\* mobile sendFile()
sendFileMobile(S, fileSize) ==
  LET id == S.nCalls + 1
      S0 == [S EXCEPT !.nCalls = id, !.results[id] = "false"]
      S1 == [S0 EXCEPT !.sendFileResolver = id, !.results[id] = "pending"]
      request == [id |-> id, fileSize |-> fileSize, httpUrl |-> FALSE]
  IN IF ~S.connectedDevice THEN S0
     ELSE IF fileSize = 0 THEN [S0 EXCEPT !.sendFileResolver = id]
     ELSE IF fileSize < LARGE_FILE
       THEN [S1 EXCEPT !.requests = Append(@, request),
                       !.pendingFileRequest = request,
                       !.pendingFileData = fileSize,
                       !.senderPath[id] = "memory"]
       ELSE [S1 EXCEPT !.requests = Append(@, request),
                       !.pendingFileRequest = request,
                       !.pendingFileUri = TRUE,
                       !.pendingFileSize = fileSize,
                       !.pendingFileChecksum = TRUE,
                       !.pendingFileData = -1,
                       !.senderPath[id] = "large"]

\* what the receiver's handleFileRequest() set up for a request
receiverPath(R) ==
  IF R.download.active THEN "httpDownload"
  ELSE IF R.httpServer.open THEN "httpUpload"
  ELSE IF R.receivingStreaming THEN "streaming"
  ELSE "memory"

\* the peer's handleFileRequest() for a request of this sender; serverOk:
\* startHttpUploadServer() resolved
peerHandleFileRequest(request, serverOk) ==
  LET X == [NoXfer EXCEPT !.connectedDevice = TRUE]
      checksum == [kind |-> "digest", h |-> 0, digits |-> <<>>]
  IN IF platform = "desktop"
       THEN handleFileRequestMobile(X, request.id, request.fileSize, checksum, request.httpUrl)
       ELSE handleFileRequestDesktop(X, request.id, request.fileSize, checksum,
                                     request.httpUrl, serverOk)

\* desktop handleFileAccept(); ok: reading and sending the file succeeded
sendHandleFileAcceptDesktop(S, accept, ok) ==
  IF S.pendingFileRequest = NoRequest \/ ~S.connectedDevice THEN S
  ELSE IF S.httpSendingRequestId # 0 THEN S
  ELSE IF ok
    THEN [chunkSendDone(S, accept, S.pendingFileRequest.fileSize,
                        IF S.pendingFileChecksum THEN "streamed" ELSE "memory")
            EXCEPT !.pendingFileChecksum = FALSE]
    ELSE sendFileResolve(
           [S EXCEPT !.pendingFileRequest = NoRequest, !.pendingFileChecksum = FALSE],
           "false")

\* mobile handleFileAccept(); ok: the HTTP upload succeeded
sendHandleFileAcceptMobile(S, accept, ok) ==
  IF S.pendingFileRequest = NoRequest \/ ~S.connectedDevice THEN S
  ELSE IF accept.uploadUrl /\ S.pendingFileUri
    THEN IF ok
      THEN [S EXCEPT !.httpSendingRequestId = S.pendingFileRequest.id,
                     !.senderPath[S.pendingFileRequest.id] = "http",
                     !.pendingFileUri = FALSE, !.pendingFileSize = 0,
                     !.pendingFileChecksum = FALSE]
      ELSE [S EXCEPT !.httpSendingRequestId = 0,
                     !.pendingFileUri = FALSE, !.pendingFileSize = 0,
                     !.pendingFileChecksum = FALSE, !.pendingFileRequest = NoRequest]
  ELSE IF S.pendingFileData # -1
    THEN [chunkSendDone(S, accept, S.pendingFileData, "memory")
            EXCEPT !.pendingFileData = -1]
  ELSE IF S.pendingFileUri
    THEN [chunkSendDone(S, accept, S.pendingFileSize, "streamed")
            EXCEPT !.pendingFileUri = FALSE, !.pendingFileSize = 0,
                   !.pendingFileChecksum = FALSE]
  ELSE S

\* handleFileAck()
sendHandleFileAck(S, requestId, success) ==
  IF S.httpSendingRequestId = requestId /\ S.pendingFileRequest # NoRequest
       /\ S.connectedDevice
    THEN sendFileResolve(
           [S EXCEPT !.httpServer = FALSE,
                     !.history = IF success
                                   THEN @ \cup {[id |-> S.pendingFileRequest.id,
                                                 fileSize |-> S.pendingFileRequest.fileSize,
                                                 ackOf |-> requestId]}
                                   ELSE @,
                     !.pendingFileRequest = NoRequest,
                     !.pendingFileChecksum = FALSE,
                     !.httpSendingRequestId = 0],
           IF success THEN "true" ELSE "false")
    ELSE S

\* a device is connected
SndConnect ==
  /\ ~snd.connectedDevice
  /\ snd' = [snd EXCEPT !.connectedDevice = TRUE]
  /\ UNCHANGED <<mgrVars, xfer, codec, pair, ka, conn, rec, store, recv>>

\* sendFile() is called
SndSendFile(fileSize, serverOk) ==
  /\ snd.nCalls < MaxSendFiles
  /\ snd' = IF platform = "desktop" THEN sendFileDesktop(snd, fileSize, serverOk)
            ELSE sendFileMobile(snd, fileSize)
  /\ UNCHANGED <<mgrVars, xfer, codec, pair, ka, conn, rec, store, recv>>

\* the peer handles the next file_request and answers with file_accept
PeerFileRequest(serverOk) ==
  /\ snd.peerHandled < Len(snd.requests)
  /\ LET request == snd.requests[snd.peerHandled + 1]
         R == peerHandleFileRequest(request, serverOk)
     IN snd' = [snd EXCEPT !.peerHandled = @ + 1,
                           !.peerPath[request.id] = receiverPath(R),
                           !.accepts = Append(@, [requestId |-> request.id,
                                                  uploadUrl |-> R.httpServer.open])]
  /\ UNCHANGED <<mgrVars, xfer, codec, pair, ka, conn, rec, store, recv>>

\* the next file_accept arrives
SndRecvFileAccept(ok) ==
  /\ snd.acceptsHandled < Len(snd.accepts)
  /\ LET accept == snd.accepts[snd.acceptsHandled + 1]
         S == [snd EXCEPT !.acceptsHandled = @ + 1]
     IN snd' = IF platform = "desktop" THEN sendHandleFileAcceptDesktop(S, accept, ok)
               ELSE sendHandleFileAcceptMobile(S, accept, ok)
  /\ UNCHANGED <<mgrVars, xfer, codec, pair, ka, conn, rec, store, recv>>

\* the peer's HTTP transfer of a request it accepted ends and its file_ack arrives
SndRecvFileAck(requestId, success) ==
  /\ snd.peerPath[requestId] \in {"httpDownload", "httpUpload"}
  /\ snd.acks[requestId] = "none"
  /\ \E k \in 1..snd.acceptsHandled : snd.accepts[k].requestId = requestId
  /\ snd' = sendHandleFileAck(
              [snd EXCEPT !.acks[requestId] = IF success THEN "true" ELSE "false"],
              requestId, success)
  /\ UNCHANGED <<mgrVars, xfer, codec, pair, ka, conn, rec, store, recv>>

\* disconnect() as far as the sending side goes: the stored resolver is
\* invoked with false; the pending request is left as it is
sendDisconnect(S) ==
  sendFileResolve(
    [S EXCEPT !.connectedDevice = FALSE,
              !.httpServer = IF platform = "desktop" THEN FALSE ELSE @],
    "false")

\* the connection is lost or the user disconnects
SndDisconnect ==
  /\ snd.connectedDevice
  /\ snd' = sendDisconnect(snd)
  /\ UNCHANGED <<mgrVars, xfer, codec, pair, ka, conn, rec, store, recv>>

\* The pairing messages a sender that does not follow the protocol may write
\* to peer p: any type, at any time.
AnyPairMessages(p) ==
  {createPairRequest(Other(p)), createPairChallenge(1),
   createPairResponse(1, NoSecret, Other(p)), createPairConfirm(Other(p)),
   createPairReject("rejected")}

\* The data handler of peer p takes a pairing message of such a sender.
PairInject(p, message) ==
  /\ pair[p].socket
  /\ pair[p].injected < MaxInjected
  /\ \E challenge \in 1..MaxChallenge :
       pair' = [pair EXCEPT ![p] =
         [pairHandleMessage(@, message, challenge) EXCEPT
            !.injected = @ + 1,
            !.events = Append(@, [op |-> message.type, arg |-> ""])]]
  /\ UNCHANGED <<mgrVars, xfer, codec, ka, snd, conn, rec, store, recv>>

\* The remote end of peer p is a responder that does not know the
\* passphrase: it answers p's pair_request with a pair_challenge of its own
\* choosing and p's pair_response with pair_confirm. injected counts its
\* answers.
ImpostorReply(p) ==
  /\ pair[p].socket
  /\ \E message \in {createPairChallenge(c) : c \in 1..MaxChallenge}
                       \cup {createPairConfirm(Other(p))} :
       /\ \/ /\ message.type = "pair_challenge"
             /\ pair[p].injected = 0
             /\ \E i \in 1..Len(pair[p].sent) : pair[p].sent[i].type = "pair_request"
          \/ /\ message.type = "pair_confirm"
             /\ pair[p].injected = 1
             /\ \E i \in 1..Len(pair[p].sent) : pair[p].sent[i].type = "pair_response"
       /\ pair' = [pair EXCEPT ![p] =
            [pairHandleMessage(@, message, 1) EXCEPT
               !.injected = @ + 1,
               !.events = Append(@, [op |-> message.type, arg |-> ""])]]
  /\ UNCHANGED <<mgrVars, xfer, codec, ka, snd, conn, rec, store, recv>>

\* d ms pass on a connection: silent is the time a peer whose pairing attempt
\* is pending (ConnectionState pairing) has waited since its last pairing call
\* or pairing message (it stops counting once it is above 30 s).
PairAdvance(d) ==
  /\ \E p \in Peers : pair[p].connectionState = "pairing" /\ pair[p].silent <= 30000
  /\ pair' = [p \in Peers |->
               [pair[p] EXCEPT !.silent = IF pair[p].connectionState # "pairing" \/ @ > 30000
                                            THEN @ ELSE @ + d]]
  /\ UNCHANGED <<mgrVars, xfer, codec, ka, snd, conn, rec, store, recv>>

\* ------------------------------------------------------------------------
\* connectToDevice of the desktop (connection.ts): up to MAX_RETRIES calls
\* of attemptConnection, each with a timeout, with a growing delay between
\* them.
\*   phase    "idle", "attempting" (attemptConnection awaits the socket) or
\*            "backoff" (the delay between two attempts)
\*   n        the loop variable attempt
\*   timer    ms until the running setTimeout fires
\*   elapsed  ms since the phase began
\*   clock    ms since connectToDevice was called
\*   attempts, waits, result: the sockets created by the call, the delays it
\*            has waited, and the value it returned
\* ------------------------------------------------------------------------
BASE_DELAY == 1000
CONNECTION_TIMEOUT == 5000

NoConn ==
  [phase |-> "idle", n |-> 0, timer |-> 0, elapsed |-> 0, clock |-> 0,
   attempts |-> 0, waits |-> <<>>, result |-> "none",
   socket |-> FALSE, connectedDevice |-> FALSE,
   status |-> "disconnected", error |-> FALSE]

\* const delay = BASE_DELAY * (attempt + 1)
backoffDelayFlat(n) == BASE_DELAY
backoffDelay(n) == BASE_DELAY * (n + 1)

\* one iteration of the loop up to the await: status connecting, then
\* attemptConnection() creates the socket and arms its timeout
attemptConnection(C) ==
  [C EXCEPT !.phase = "attempting", !.status = "connecting", !.error = FALSE,
            !.timer = CONNECTION_TIMEOUT, !.elapsed = 0, !.attempts = @ + 1]

connectToDevice(C) ==
  attemptConnection([C EXCEPT !.n = 0, !.attempts = 0, !.waits = <<>>,
                              !.result = "none", !.clock = 0])

\* the socket's 'connect' handler and `if (success) return true`
connOnConnect(C) ==
  [C EXCEPT !.phase = "idle", !.timer = 0, !.socket = TRUE,
            !.connectedDevice = TRUE, !.status = "connected",
            !.result = "true"]

\* attemptConnection() resolved false ('error' handler or timeout): the rest of
\* the iteration, and the end of connectToDevice() after the last one
connAttemptFailed(C) ==
  IF C.n < MAX_RETRIES - 1
  THEN [C EXCEPT !.phase = "backoff", !.timer = backoffDelay(C.n), !.elapsed = 0]
  ELSE [C EXCEPT !.phase = "idle", !.timer = 0, !.status = "disconnected",
                 !.error = TRUE, !.result = "false"]

\* the delay is over: attempt++ and the next iteration
connBackoffDone(C) ==
  attemptConnection([C EXCEPT !.n = @ + 1, !.waits = Append(@, C.elapsed)])

\* disconnect()
connDisconnect(C) ==
  [C EXCEPT !.socket = FALSE, !.connectedDevice = FALSE,
            !.status = "disconnected", !.error = FALSE]

ConnectToDevice ==
  /\ conn.phase = "idle"
  /\ conn' = connectToDevice(conn)
  /\ UNCHANGED <<mgrVars, xfer, codec, pair, ka, snd, rec, store, recv>>

\* d ms pass, or less when the running timer is due sooner
ConnAdvance(d) ==
  /\ conn.phase # "idle"
  /\ conn.timer > 0
  /\ LET e == IF conn.timer < d THEN conn.timer ELSE d
     IN conn' = [conn EXCEPT !.timer = @ - e, !.elapsed = @ + e, !.clock = @ + e]
  /\ UNCHANGED <<mgrVars, xfer, codec, pair, ka, snd, rec, store, recv>>

ConnOnConnect ==
  /\ conn.phase = "attempting"
  /\ conn' = connOnConnect(conn)
  /\ UNCHANGED <<mgrVars, xfer, codec, pair, ka, snd, rec, store, recv>>

ConnOnError ==
  /\ conn.phase = "attempting"
  /\ conn' = connAttemptFailed(conn)
  /\ UNCHANGED <<mgrVars, xfer, codec, pair, ka, snd, rec, store, recv>>

ConnTimeout ==
  /\ conn.phase = "attempting"
  /\ conn.timer = 0
  /\ conn' = connAttemptFailed(conn)
  /\ UNCHANGED <<mgrVars, xfer, codec, pair, ka, snd, rec, store, recv>>

ConnBackoffDone ==
  /\ conn.phase = "backoff"
  /\ conn.timer = 0
  /\ conn' = connBackoffDone(conn)
  /\ UNCHANGED <<mgrVars, xfer, codec, pair, ka, snd, rec, store, recv>>

ConnDisconnect ==
  /\ conn.phase = "idle"
  /\ conn.socket
  /\ conn' = connDisconnect(conn)
  /\ UNCHANGED <<mgrVars, xfer, codec, pair, ka, snd, rec, store, recv>>

\* ------------------------------------------------------------------------
\* Mobile useConnection: connect(), disconnect(userInitiated) and the
\* AppState effect that reconnects when the app returns to the foreground.
\*   dialing    the connect() in progress: who called it and for which device
\*   autoTimer  the device of the pending 500 ms timer of the effect
\*   userDisconnected  the user pressed Disconnect and has not connected since
\* ------------------------------------------------------------------------
RecDevices == {"d1", "d2"}
NoDial == [by |-> "none", device |-> NoDevice]

NoRec ==
  [appState |-> "active", socket |-> FALSE, connectedDevice |-> NoDevice,
   lastConnectedDevice |-> NoDevice, autoReconnecting |-> FALSE,
   autoTimer |-> NoDevice, dialing |-> NoDial, keepaliveInterval |-> FALSE,
   status |-> "disconnected", userDisconnected |-> FALSE]

\* connect(device) up to the creation of the socket
recConnect(R, by, device) ==
  [R EXCEPT !.status = "connecting", !.dialing = [by |-> by, device |-> device]]

\* the connection callback of connect(), and the then() of the effect
recConnected(R) ==
  [R EXCEPT !.socket = TRUE, !.connectedDevice = R.dialing.device,
            !.lastConnectedDevice = R.dialing.device,
            !.autoReconnecting = FALSE, !.status = "connected",
            !.keepaliveInterval = TRUE, !.dialing = NoDial]

\* the 'error' handler of connect(), and the then() of the effect
recConnectError(R) ==
  LET R1 == [R EXCEPT !.status = "disconnected", !.dialing = NoDial]
  IN IF R.dialing.by = "auto"
       THEN [R1 EXCEPT !.autoReconnecting = FALSE, !.lastConnectedDevice = NoDevice]
       ELSE R1

\* disconnect(userInitiated)
recDisconnect(R, userInitiated) ==
  [R EXCEPT !.keepaliveInterval = FALSE, !.socket = FALSE,
            !.connectedDevice = NoDevice,
            !.lastConnectedDevice = IF userInitiated THEN NoDevice ELSE @,
            !.status = "disconnected"]

\* App.tsx handleDisconnect: `await disconnect()`, the argument is undefined
handleDisconnect(R) == recDisconnect(R, FALSE)

\* the AppState listener on 'active'
recOnActive(R) ==
  LET wasConnected == R.lastConnectedDevice # NoDevice
      isDisconnected == ~R.socket
  IN IF wasConnected /\ isDisconnected /\ ~R.autoReconnecting
       THEN [R EXCEPT !.appState = "active", !.autoReconnecting = TRUE,
                      !.autoTimer = R.lastConnectedDevice]
       ELSE [R EXCEPT !.appState = "active"]

\* the user taps a device
RecConnect(device) ==
  /\ rec.dialing = NoDial
  /\ rec' = [recConnect(rec, "user", device) EXCEPT !.userDisconnected = FALSE]
  /\ UNCHANGED <<mgrVars, xfer, codec, pair, ka, snd, conn, store, recv>>

RecConnected ==
  /\ rec.dialing # NoDial
  /\ rec' = recConnected(rec)
  /\ UNCHANGED <<mgrVars, xfer, codec, pair, ka, snd, conn, store, recv>>

RecConnectError ==
  /\ rec.dialing # NoDial
  /\ rec' = recConnectError(rec)
  /\ UNCHANGED <<mgrVars, xfer, codec, pair, ka, snd, conn, store, recv>>

\* the user presses Disconnect
RecHandleDisconnect ==
  /\ rec.status = "connected"
  /\ rec' = [handleDisconnect(rec) EXCEPT !.userDisconnected = TRUE]
  /\ UNCHANGED <<mgrVars, xfer, codec, pair, ka, snd, conn, store, recv>>

\* the socket's 'close' handler (peer or OS closed it): disconnectRef.current()
RecSocketClose ==
  /\ rec.socket
  /\ rec' = recDisconnect(rec, FALSE)
  /\ UNCHANGED <<mgrVars, xfer, codec, pair, ka, snd, conn, store, recv>>

RecBackground ==
  /\ rec.appState = "active"
  /\ rec' = [rec EXCEPT !.appState = "background"]
  /\ UNCHANGED <<mgrVars, xfer, codec, pair, ka, snd, conn, store, recv>>

RecForeground ==
  /\ rec.appState = "background"
  /\ rec' = recOnActive(rec)
  /\ UNCHANGED <<mgrVars, xfer, codec, pair, ka, snd, conn, store, recv>>

\* the 500 ms timer of the effect: connect(device)
RecAutoReconnectTimer ==
  /\ rec.autoTimer # NoDevice
  /\ rec.dialing = NoDial
  /\ rec' = [recConnect(rec, "auto", rec.autoTimer) EXCEPT !.autoTimer = NoDevice]
  /\ UNCHANGED <<mgrVars, xfer, codec, pair, ka, snd, conn, store, recv>>

\* ------------------------------------------------------------------------
\* The transfer history: StorageService (desktop storage.ts) and useStorage
\* (mobile).  A transfer is represented by its number in the order of the
\* addTransfer calls.
\*   added      the addTransfer calls so far
\*   clearedAt  the value of added at the last clearTransfers
\* ------------------------------------------------------------------------
HISTORY_LIMIT == 100

NoStore == [transfers |-> <<>>, added |-> 0, clearedAt |-> 0]

\* transfers.splice(n): the first n elements stay
splice(transfers, n) ==
  IF Len(transfers) > n THEN SubSeq(transfers, 1, n) ELSE transfers

\* an addTransfer that never drops an entry
addTransferUnlimited(transfers, transfer) == <<transfer>> \o transfers

\* desktop addTransfer: unshift, then splice(100) when longer than 100
addTransfer(transfers, transfer) ==
  LET unshifted == <<transfer>> \o transfers
  IN IF Len(unshifted) > HISTORY_LIMIT THEN splice(unshifted, HISTORY_LIMIT)
     ELSE unshifted

\* mobile addTransfer: [transfer, ...prev], then splice(100) when longer
addTransferMobile(prev, transfer) ==
  LET newTransfers == <<transfer>> \o prev
  IN IF Len(newTransfers) > HISTORY_LIMIT THEN splice(newTransfers, HISTORY_LIMIT)
     ELSE newTransfers

clearTransfers(transfers) == <<>>

AddTransfer ==
  /\ store.added < MaxTransfers
  /\ store' = [store EXCEPT
                 !.added = @ + 1,
                 !.transfers = IF platform = "desktop"
                                 THEN addTransfer(@, store.added + 1)
                                 ELSE addTransferMobile(@, store.added + 1)]
  /\ UNCHANGED <<mgrVars, xfer, codec, pair, ka, snd, conn, rec, recv>>

ClearTransfers ==
  /\ store' = [store EXCEPT !.transfers = clearTransfers(@),
                            !.clearedAt = store.added]
  /\ UNCHANGED <<mgrVars, xfer, codec, pair, ka, snd, conn, rec, recv>>

\* ------------------------------------------------------------------------
\* Several small files sent back to back over one connection (desktop)
\* ------------------------------------------------------------------------
\* the files a multi-file send hands to sendFile, one after the other
MaxFiles == 2

SentFiles == 1..MaxFiles
NoFileInfo == [set |-> FALSE, fileName |-> 0, totalChunks |-> 0]

\* wire: frames on their way to the receiver; back: frames on their way to
\* the sender; writes: the fs.promises.writeFile() calls in flight; disk: the
\* bytes stored under each file name; chunks: how many chunks each file has.
NoRecv ==
  [sent |-> 0, sending |-> 0, pendingFileRequest |-> 0,
   chunks |-> [f \in SentFiles |-> 0],
   wire |-> <<>>, back |-> <<>>,
   receivingFileInfo |-> NoFileInfo,
   receivingChunks |-> [i \in Indexes |-> NoBlock],
   writes |-> {},
   disk |-> [f \in SentFiles |-> <<>>],
   transfers |-> {},
   writeFailed |-> FALSE]

\* the bytes of file f: k chunks whose content is the file's own
fileData(f, k) == [i \in 1..k |-> [n |-> CHUNK_SIZE, c |-> f]]

\* sender: sendFile() of a small file, up to the await of transferComplete
sendSmallFile(R, f, k) ==
  [R EXCEPT !.sending = f, !.pendingFileRequest = f, !.chunks[f] = k,
            !.wire = Append(@, [type |-> "file_request", fileName |-> f,
                                 fileSize |-> k * CHUNK_SIZE, index |-> 0,
                                 data |-> NoBlock, checksum |-> DigestTag(0)])]

\* sender: handleFileAccept() of a small file; the sendFile promise resolves
handleFileAcceptSmall(R) ==
  IF R.pendingFileRequest = 0 THEN R
  ELSE
    LET f == R.pendingFileRequest
        fileData_ == fileData(f, R.chunks[f])
        chunkMessages == [i \in 1..Len(fileData_) |->
                            [type |-> "file_chunk", fileName |-> f, fileSize |-> 0,
                             index |-> i - 1, data |-> fileData_[i], checksum |-> DigestTag(0)]]
        completeMessage == [type |-> "file_complete", fileName |-> f, fileSize |-> 0,
                            index |-> 0, data |-> NoBlock,
                            checksum |-> DigestTag(calculateChecksum(fileData_))]
    IN [R EXCEPT !.wire = (@ \o chunkMessages) \o <<completeMessage>>,
                 !.pendingFileRequest = 0, !.sending = 0, !.sent = @ + 1]

\* receiver: handleFileRequest() of a small file
handleFileRequestSmall(R, message) ==
  [R EXCEPT !.receivingFileInfo =
               [set |-> TRUE, fileName |-> message.fileName,
                totalChunks |-> ceilDiv(message.fileSize, CHUNK_SIZE)],
            !.receivingChunks = [i \in Indexes |-> NoBlock],
            !.back = Append(@, "file_accept")]

\* receiver: handleFileChunk() in memory
handleFileChunkSmall(R, message) ==
  [R EXCEPT !.receivingChunks[message.index] = message.data]

\* receiver: handleFileComplete() in memory, up to await writeFile(savePath)
handleFileCompleteSmall(R, message) ==
  IF ~R.receivingFileInfo.set THEN R
  ELSE
    LET r == reassembleChunks(R.receivingChunks, R.receivingFileInfo.totalChunks)
        cleared == [R EXCEPT !.receivingChunks = [i \in Indexes |-> NoBlock],
                             !.receivingFileInfo = NoFileInfo]
    IN IF ~r.ok THEN cleared
       ELSE IF ~verifyFileIntegrity(r.data, message.checksum) THEN cleared
       ELSE [R EXCEPT !.writes = @ \cup {[savePath |-> R.receivingFileInfo.fileName,
                                          fileData |-> r.data]}]

\* receiver: handleFileComplete() after await writeFile(savePath); reading
\* this.receivingFileInfo.fileName throws when receivingFileInfo is null and
\* the catch block logs it
resumeWriteFile(R, w, ok) ==
  LET R1 == [R EXCEPT !.writes = @ \ {w},
                      !.disk[w.savePath] = IF ok THEN w.fileData ELSE @,
                      !.writeFailed = @ \/ ~ok]
      R2 == IF ok /\ R.receivingFileInfo.set
              THEN [R1 EXCEPT !.transfers = @ \cup
                      {[fileName |-> R.receivingFileInfo.fileName, filePath |-> w.savePath]}]
              ELSE R1
  IN [R2 EXCEPT !.receivingChunks = [i \in Indexes |-> NoBlock],
                !.receivingFileInfo = NoFileInfo]

\* receiver: handleMessage() of the next frame
receiveSmall(R, message) ==
  CASE message.type = "file_request" -> handleFileRequestSmall(R, message)
    [] message.type = "file_chunk" -> handleFileChunkSmall(R, message)
    [] OTHER -> handleFileCompleteSmall(R, message)

\* handleSendFiles(): the next file is sent when the sendFile() before it returned
SendNextFile ==
  /\ recv.sending = 0
  /\ recv.sent < MaxFiles
  /\ \E k \in 1..(MaxIndex + 1) : recv' = sendSmallFile(recv, recv.sent + 1, k)
  /\ UNCHANGED <<mgrVars, xfer, codec, pair, ka, snd, conn, rec, store>>

SenderReceive ==
  /\ recv.back # <<>>
  /\ recv' = handleFileAcceptSmall([recv EXCEPT !.back = Tail(@)])
  /\ UNCHANGED <<mgrVars, xfer, codec, pair, ka, snd, conn, rec, store>>

ReceiverReceive ==
  /\ recv.wire # <<>>
  /\ recv' = receiveSmall([recv EXCEPT !.wire = Tail(@)], Head(recv.wire))
  /\ UNCHANGED <<mgrVars, xfer, codec, pair, ka, snd, conn, rec, store>>

WriteFileDone ==
  /\ \E w \in recv.writes, ok \in BOOLEAN : recv' = resumeWriteFile(recv, w, ok)
  /\ UNCHANGED <<mgrVars, xfer, codec, pair, ka, snd, conn, rec, store>>

\* ------------------------------------------------------------------------
\* Specification of the connection manager
\* ------------------------------------------------------------------------
Init ==
  /\ platform \in {"desktop", "mobile"}
  /\ now = 0
  /\ sock = [s \in SockIds |-> NoSock]
  /\ socket = 0
  /\ connectedDevice = "null"
  /\ connectionState = "disconnected"
  /\ lastPongReceived = 0
  /\ keepaliveInterval = FALSE
  /\ transferActive = FALSE
  /\ httpServer = FALSE
  /\ sendFileResolver = 0
  /\ pendingFileRequest = 0
  /\ httpSendingRequestId = 0
  /\ calls = [c \in CallIds |-> NoCall]
  /\ attempt = 0
  /\ pendingFileData = FALSE
  /\ pendingFileUri = FALSE
  /\ graceTimers = 0
  /\ xfer = NoXfer
  /\ codec = NoCodec
  /\ pair = [p \in Peers |-> NoPeer(p)]
  /\ ka = NoKeepalive
  /\ snd = NoSend
  /\ conn = NoConn
  /\ rec = NoRec
  /\ store = NoStore
  /\ recv = NoRecv

Next ==
  \/ \E s \in SockIds : Incoming(s)
  \/ \E s \in SockIds : ConnectCall(s)
  \/ \E s \in SockIds : ConnectRetry(s)
  \/ \E s \in SockIds : ConnectOk(s)
  \/ \E s \in SockIds : ConnectFail(s)
  \/ \E s \in SockIds : CloseEvent(s)
  \/ \E s \in SockIds : PeerClose(s)
  \/ \E s \in SockIds : ErrorEvent(s)
  \/ Disconnect
  \/ \E c \in CallIds : SendFileCall(c)
  \/ \E c \in CallIds : SendFileStat(c)
  \/ \E c \in CallIds : SendFileRead(c)
  \/ \E c \in CallIds : SendFileHttpServer(c)
  \/ \E s \in SockIds : RecvFrame(s)
  \/ GraceTimer
  \/ Tick

Spec == Init /\ [][Next]_vars

\* ------------------------------------------------------------------------
\* C1: at most one TCP peer socket is live (open, with its data/close
\* handlers attached) in every reachable state of a connection manager.
\* ------------------------------------------------------------------------
C1_AtMostOneLiveSocket == Cardinality({s \in SockIds : Live(s)}) <= 1

\* ------------------------------------------------------------------------
\* C2: an inbound connection that arrives while a current socket exists
\* displaces it only if the current socket is torn down or has produced no
\* frame in the last 30 s; otherwise the new connection is destroyed and the
\* current socket remains the active peer.
\* ------------------------------------------------------------------------
C2_InboundDisplacesOnlyDeadOrStale ==
  [][\A s \in SockIds :
       (sock[s].st = "unused" /\ sock'[s].st # "unused" /\ sock'[s].accepted /\ socket # 0)
         => IF sock[socket].st # "open" \/ (now - lastPongReceived) > STALE_MS
              THEN socket' = s /\ sock'[socket].st = "closed"
              ELSE socket' = socket /\ sock'[s].st = "closed" /\ sock'[socket].st = "open"]_vars

\* ------------------------------------------------------------------------
\* C3: a sendFile call that was awaiting completion when the connection was
\* lost (local disconnect, socket close or socket error) has returned false,
\* its resolver having been invoked exactly once.
\* ------------------------------------------------------------------------
C3_LostSendFileResolvesFalseOnce ==
  \A c \in CallIds :
    calls[c].lost =>
      calls[c].st = "returned" /\ calls[c].result = "false" /\ calls[c].resolves = 1

\* ------------------------------------------------------------------------
\* Specification of the receiving side of a file transfer
\* ------------------------------------------------------------------------
NextXfer ==
  \/ DeviceConnected
  \/ DeviceDisconnected
  \/ RecvFileRequest
  \/ RecvFileChunk
  \/ RecvFileComplete
  \/ ResumeFileComplete
  \/ HttpUpload
  \/ DownloadDone

SpecXfer == Init /\ [][NextXfer]_vars

\* C4: every receive FileTransfer produced via the chunk path is for bytes
\* whose recomputed checksum equals the checksum carried by file_complete;
\* nothing is surfaced as a completed transfer before that check passes.
C4_ChunkEntryBytesMatchChecksum ==
  \A t \in xfer.history :
    t.via = "chunk" => calculateChecksum(t.file) = t.checksum.h

\* the verifier of the claim: digest equal to the expected checksum, or a
\* size:N tag with the byte count equal to N
DigestOrSizeMatches(t) ==
  \/ t.checksum.kind = "digest" /\ calculateChecksum(t.file) = t.checksum.h
  \/ t.checksum.kind = "size" /\ DataLen(t.file) = parseInt(t.checksum.digits)

NextCodec ==
  \/ SendFrame
  \/ OnData
  \/ SocketClosed

\* the codec is the same code on both platforms
InitCodec == Init /\ platform = "desktop"

SpecCodec == InitCodec /\ [][NextCodec]_vars

IsPrefix(a, b) == Len(a) <= Len(b) /\ SubSeq(b, 1, Len(a)) = a

\* C6 (as stated): for any sequence of messages framed by serializeMessage,
\* the bytes split at arbitrary points and appended piece by piece, with an
\* extraction after each append, yield exactly the messages framed, in order:
\* what was extracted is always a prefix of what was framed, and once every
\* byte is delivered it is all of it.
C6_ExtractedEqualsFramed ==
  /\ IsPrefix(codec.received, codec.sent)
  /\ codec.wire = <<>> => codec.received = codec.sent

\* C6 (amended): the same, for messages whose JSON payload is at most
\* MAX_MESSAGE_SIZE bytes.
C6_ExtractedEqualsFramedWithinLimit ==
  (\A i \in 1..Len(codec.sent) : length(stringify(codec.sent[i])) <= MAX_MESSAGE_SIZE)
    => /\ IsPrefix(codec.received, codec.sent)
       /\ codec.wire = <<>> => codec.received = codec.sent

C6_Witness ==
  /\ Len(codec.sent) = 2
  /\ codec.wire = <<>>
  /\ codec.received = codec.sent
  /\ codec.splitInside
  /\ \E i \in 1..2 : length(stringify(codec.sent[i])) = MAX_MESSAGE_SIZE

\* C7: when the header at the front of the receive buffer announces a payload
\* of more than 10 MiB, the connection is torn down: once the data handler
\* has returned, the socket is closed.
C7_OversizedHeaderClosesSocket ==
  (length(codec.buffer) >= 4 /\ getUint32(codec.buffer) > MAX_MESSAGE_SIZE)
    => ~codec.open

\* ------------------------------------------------------------------------
\* Specification of pairing
\* ------------------------------------------------------------------------
NextPair ==
  \/ \E d \in Peers : PairConnect(d)
  \/ \E p \in Peers, passphrase \in Passphrases : StartPairing(p, passphrase)
  \/ \E p \in Peers, passphrase \in Passphrases : RespondToPairing(p, passphrase)
  \/ \E p \in Peers : SendText(p)
  \/ \E p \in Peers : Deliver(p)

\* the pairing code does not read the manager's platform variable
InitPair == Init /\ platform = "desktop"

SpecPair == InitPair /\ [][NextPair]_vars

Types(msgs) == [k \in 1..Len(msgs) |-> msgs[k].type]
Ops(events) == [k \in 1..Len(events) |-> events[k].op]
pairingStatus(p) == pair[p].currentPairingState.status
sharedSecretOf(p) == pair[p].currentPairingState.sharedSecret

\* Initiator i and responder r hold the same passphrase and have exchanged
\* exactly pair_request, pair_challenge, pair_response, pair_confirm.
FullExchange(i, r) ==
  /\ Types(pair[i].sent) = <<"pair_request", "pair_response">>
  /\ Types(pair[r].sent) = <<"pair_challenge", "pair_confirm">>
  /\ pair[i].handled = 2
  /\ pair[r].handled = 2
  /\ pair[i].pendingPassphrase = pair[r].pendingPassphrase

\* C8: when initiator and responder use the same passphrase and have
\* exchanged pair_request, pair_challenge, pair_response and pair_confirm,
\* both pairing states are success, each side has stored a PairedDevice for
\* the other, the two stored sharedSecret values are identical, and both
\* ConnectionState.status values are connected.
C8_SamePassphrasePairsBothSides ==
  \A i \in Peers :
    LET r == Other(i) IN
    FullExchange(i, r) =>
      /\ pairingStatus(i) = "success"
      /\ pairingStatus(r) = "success"
      /\ \E di \in pair[i].pairedDevices, dr \in pair[r].pairedDevices :
           /\ di.id = pair[r].localDevice
           /\ dr.id = pair[i].localDevice
           /\ di.sharedSecret = dr.sharedSecret
           /\ di.sharedSecret # NoSecret
      /\ pair[i].connectionState = "connected"
      /\ pair[r].connectionState = "connected"

C8_Witness ==
  \E i \in Peers :
    /\ FullExchange(i, Other(i))
    /\ Ops(pair[Other(i)].events)
         = <<"pair_request", "respondToPairing", "pair_response">>
    /\ \A p \in Peers : pair[p].connectionState = "connected"
    /\ \A p \in Peers : pair[p].pairedDevices # {}

\* Initiator i started pairing with one passphrase, responder r answered
\* its request with another, and r has handled i's pair_response; no text
\* was sent meanwhile.
Mismatch(i, r) ==
  /\ Ops(pair[r].events) = <<"pair_request", "respondToPairing", "pair_response">>
  /\ \/ Ops(pair[i].events) = <<"startPairing", "pair_challenge">>
     \/ Ops(pair[i].events) = <<"startPairing", "pair_challenge", "pair_reject">>
  /\ pair[r].events[2].arg # pair[i].events[1].arg
  /\ pair[i].nTexts = 0
  /\ pair[r].nTexts = 0

\* C9: when the responder's passphrase differs from the initiator's, the
\* responder sends pair_reject with reason "Passphrase mismatch" and is
\* failed; the initiator is failed once it has handled the reject; neither
\* side stores a PairedDevice.
C9_MismatchRejectsAndStoresNothing ==
  \A i \in Peers :
    LET r == Other(i) IN
    Mismatch(i, r) =>
      /\ pair[r].sent = <<pair[r].sent[1], createPairReject("Passphrase mismatch")>>
      /\ pair[r].sent[1].type = "pair_challenge"
      /\ pairingStatus(r) = "failed"
      /\ Len(pair[i].events) = 3 =>
           /\ pairingStatus(i) = "failed"
           /\ pair[i].currentPairingState.error = "Passphrase mismatch"
      /\ pair[i].pairedDevices = {}
      /\ pair[r].pairedDevices = {}

C9_Witness ==
  \E i \in Peers :
    /\ Mismatch(i, Other(i))
    /\ Len(pair[i].events) = 3
    /\ pairingStatus(i) = "failed"
    /\ pairingStatus(Other(i)) = "failed"

\* Both peers called startPairing, with the same passphrase, before either
\* handled the other's pair_request, and no other call was made (no
\* respondToPairing, no second startPairing, no sendText).
Crossed ==
  /\ \A p \in Peers :
       /\ Len(pair[p].events) >= 1
       /\ pair[p].events[1].op = "startPairing"
       /\ \A k \in 2..Len(pair[p].events) :
            pair[p].events[k].op \notin {"startPairing", "respondToPairing"}
       /\ \A k \in 1..Len(pair[p].sent) : pair[p].sent[k].type # "text"
  /\ pair["desktop"].events[1].arg = pair["mobile"].events[1].arg

Quiescent == \A p \in Peers : pair[p].handled = Len(pair[Other(p)].sent)

\* C10: when both peers send pair_request at the same time, each with the
\* same passphrase queued, each answers the other's request as responder
\* (with a pair_challenge), no interleaving of the crossed messages makes a
\* side failed, and once every message is handled both are in success with
\* the same sharedSecret.
C10_CrossedRequestsBothSucceed ==
  Crossed =>
    /\ \A p \in Peers :
         /\ pairingStatus(p) # "failed"
         /\ Len(pair[p].events) >= 2 =>
              /\ pair[p].events[2].op = "pair_request"
              /\ Len(pair[p].sent) >= 2
              /\ pair[p].sent[2].type = "pair_challenge"
    /\ Quiescent =>
         /\ \A p \in Peers : pairingStatus(p) = "success"
         /\ sharedSecretOf("desktop") = sharedSecretOf("mobile")
         /\ sharedSecretOf("desktop") # NoSecret

C10_Witness ==
  /\ Crossed
  /\ Quiescent
  /\ \A p \in Peers : pairingStatus(p) = "success"
  /\ \A p \in Peers : Types(pair[p].sent)
       = <<"pair_request", "pair_challenge", "pair_response", "pair_confirm">>

\* C11: after a pairing attempt has ended failed on a connection, and until
\* a later pairing succeeds, no data-plane effect occurs on it: while a
\* peer's pairing state stays failed, handling a frame surfaces no received
\* text and adds no history entry.
C11_NoDataPlaneAfterFailedPairing ==
  [][\A p \in Peers :
       (pairingStatus(p) = "failed" /\ pair'[p].currentPairingState.status = "failed"
          /\ pair'[p].handled = pair[p].handled + 1)
         => pair'[p].history = pair[p].history]_vars

\* C12: a disconnect that happens during an in-flight transfer leaves no
\* pending receive state behind: once the manager has dropped its connected
\* device, there is no receiving file info, no collected chunk, no streaming
\* or HTTP receive id and no temp file.
C12_DisconnectClearsTransferState ==
  [][(xfer.connectedDevice /\ ~xfer'.connectedDevice) =>
       /\ xfer'.receivingFileInfo = NoInfo
       /\ \A i \in Indexes : xfer'.receivingChunks[i] = NoBlock
       /\ ~xfer'.receivingStreaming
       /\ xfer'.httpReceivingRequestId = 0
       /\ ~xfer'.receivingTempPath]_vars

\* C13: a transfer that was in flight when the connection was lost never
\* produces a history entry, neither at the disconnect nor later: while the
\* receive state is that of such a transfer, no step calls
\* onTransferComplete.
C13_LostTransferNoHistory ==
  [][(xfer.lost /\ xfer'.lost) => xfer'.history = xfer.history]_vars

\* ------------------------------------------------------------------------
\* Specifications of the keepalive
\* ------------------------------------------------------------------------
KaEvents ==
  \/ KaConnect
  \/ KaTick
  \/ \E type \in {"pong", "file_request", "file_complete", "file_accept", "file_ack"},
        flag \in BOOLEAN, ok \in BOOLEAN : KaRecv(type, flag, ok)
  \/ \E http \in BOOLEAN : KaSendFile(http)
  \/ KaHttpSettled
  \/ KaGraceTimer
  \/ KaResetKeepaliveTimer
  \/ \E active \in BOOLEAN : KaAppState(active)
  \/ KaDisconnect

\* the clock advances second by second
NextKeepalive == KaEvents \/ KaAdvance(StepMs)

SpecKeepalive == Init /\ [][NextKeepalive]_vars

\* the clock advances from one firing of the interval to the next; timers
\* that are due fire, time passes, and an HTTP transfer settles
NextStall == KaEvents \/ KaAdvance(KEEPALIVE_INTERVAL) \/ KaStall

SpecStall ==
  /\ Init
  /\ [][NextStall]_vars
  /\ WF_vars(KaAdvance(KEEPALIVE_INTERVAL))
  /\ WF_vars(KaTick)
  /\ WF_vars(KaGraceTimer)
  /\ WF_vars(KaHttpSettled)

\* C14 as stated: with the app in the foreground, no transfer active and the
\* keepalive clock reset by nothing but inbound frames, no connection is
\* still up once no inbound frame has arrived for 121 s.
C14_Silent121Disconnected ==
  ~(/\ ka.socket
    /\ ka.keepaliveInterval
    /\ ~ka.transferActive
    /\ ka.appInForeground
    /\ ka.byFrame
    /\ ka.sincePong >= 121000)

\* C14, amended: the keepalive disconnects only at a firing of its 5 s
\* interval, with the app in the foreground, no transfer active and more than
\* 120 s since lastPongReceived was set, which every inbound frame does (a
\* connection silent for 119 s survives); and with the app in the foreground
\* and no transfer active, lastPongReceived is never more than 120 s + 5 s
\* old on a live connection.
C14_KeepaliveWindow ==
  [][/\ (ka'.socket /\ ka'.keepaliveInterval /\ ~ka'.transferActive
           /\ ka'.appInForeground)
          => ka'.sincePong <= KEEPALIVE_TIMEOUT + KEEPALIVE_INTERVAL
     /\ (ka.socket /\ ~ka'.socket /\ ka'.cause = "keepalive")
          => /\ ka.sincePong > KEEPALIVE_TIMEOUT
             /\ ka.toTick = 0
             /\ ~ka.transferActive
             /\ ka.appInForeground]_vars

C14_Witness ==
  /\ ~ka.socket
  /\ ka.cause = "keepalive"
  /\ ka.byFrame
  /\ ka.sincePong > 121000

\* C15: once the peer has stalled in the middle of a transfer, transferActive
\* is eventually cleared (by the end of the transfer or by a disconnect), so
\* that the keepalive timeout can fire.
C15_StalledTransferEventuallyCleared ==
  (ka.socket /\ ka.stalled /\ ka.transferActive) ~> ~ka.transferActive

\* ------------------------------------------------------------------------
\* Specification of the sending side of a file transfer
\* ------------------------------------------------------------------------
NextSend ==
  \/ SndConnect
  \/ \E fileSize \in SendSizes, serverOk \in BOOLEAN : SndSendFile(fileSize, serverOk)
  \/ \E serverOk \in BOOLEAN : PeerFileRequest(serverOk)
  \/ \E ok \in BOOLEAN : SndRecvFileAccept(ok)
  \/ \E requestId \in SendIds, success \in BOOLEAN : SndRecvFileAck(requestId, success)

SpecSend == Init /\ [][NextSend]_vars

\* C16: every chunk send (file_chunk frames, file_complete and the send
\* record) was started by a file_accept whose requestId is the id of the
\* file_request pending at that moment.
C16_ChunksOnlyOnMatchingAccept ==
  \A e \in snd.emitted : e.accept = e.id

C18_ThresholdFileIsLarge ==
  \A k \in 1..Len(snd.requests) :
    LET request == snd.requests[k]
    IN request.fileSize = LARGE_FILE =>
         /\ snd.senderPath[request.id] # "memory"
         /\ snd.peerPath[request.id] # "memory"

\* C19: every POST handled by the upload endpoint ended with a file_ack:
\* success = true with status 200, success = false with status 400.
C19_EveryPostIsAcked ==
  \A post \in xfer.posts :
    \/ post.status = 200 /\ post.ack = "true"
    \/ post.status = 400 /\ post.ack = "false"

\* C20: a step in which the POST of the upload server's single transfer ends,
\* or in which the connection is lost, leaves no upload server listening.
C20_HttpServerShutDown ==
  [][(\/ xfer.httpServer.open /\ xfer'.nHttp > xfer.nHttp
      \/ xfer.connectedDevice /\ ~xfer'.connectedDevice)
       => ~xfer'.httpServer.open]_vars

\* C21: in HTTP send mode a send record is produced only by the file_ack of
\* that request, with success = true, and the sendFile call of a request
\* whose file_ack was handled returned the acknowledged success value.
C21_HttpSendRecordOnlyOnAck ==
  /\ \A h \in snd.history :
       (h.ackOf # 0 \/ snd.senderPath[h.id] = "http")
         => h.ackOf = h.id /\ snd.acks[h.id] = "true"
  /\ \A id \in SendIds :
       (snd.senderPath[id] = "http" /\ snd.acks[id] # "none")
         => snd.results[id] = snd.acks[id]

\* C22: on a connection that carried no pairing exchange, once A has sent one
\* text and B has handled it, B has produced exactly one receive text record
\* whose deviceId is A's device id, and A exactly one send text record.
C22_TextBetweenPairedPeers ==
  \A p \in Peers :
    LET A == pair[p]
        B == pair[Other(p)]
        received == {i \in 1..Len(B.history) :
                       B.history[i].type = "text" /\ B.history[i].direction = "receive"}
        sends == {i \in 1..Len(A.history) :
                    A.history[i].type = "text" /\ A.history[i].direction = "send"}
    IN (A.nCalls = 0 /\ B.nCalls = 0 /\ A.nTexts = 1 /\ B.handled = Len(A.sent))
         => /\ Cardinality(received) = 1
            /\ \A i \in received : B.history[i].deviceId = A.localDevice
            /\ Cardinality(sends) = 1

\* ------------------------------------------------------------------------
\* Specification of connectToDevice.  The timers of the event loop fire, so
\* time advances and a due timer runs (weak fairness).
\* ------------------------------------------------------------------------
NextConnect ==
  \/ ConnectToDevice
  \/ ConnAdvance(StepMs)
  \/ ConnOnConnect
  \/ ConnOnError
  \/ ConnTimeout
  \/ ConnBackoffDone
  \/ ConnDisconnect

InitConnect == Init /\ platform = "desktop"

SpecConnect ==
  /\ InitConnect
  /\ [][NextConnect]_vars
  /\ WF_vars(ConnAdvance(StepMs))
  /\ WF_vars(ConnTimeout)
  /\ WF_vars(ConnBackoffDone)

\* C23: connectToDevice makes at most 3 attempts, none lasting longer than
\* 5 s, waits 1 s after the first failed attempt and 2 s after the second,
\* returns true in the step in which an attempt connects, returns false only
\* after three failed attempts and then with ConnectionState disconnected
\* and an error, and always returns, at most 18 s after the call.
C23_ConnectRetries ==
  /\ [](/\ conn.attempts <= MAX_RETRIES
        /\ conn.phase = "attempting" => conn.elapsed <= 5000
        /\ Len(conn.waits) = (IF conn.attempts = 0 THEN 0 ELSE conn.attempts - 1)
        /\ \A i \in 1..Len(conn.waits) : conn.waits[i] = 1000 * i
        /\ conn.clock <= 18000)
  /\ [][/\ (conn.phase = "attempting" /\ conn'.socket /\ ~conn.socket)
             => conn'.result = "true" /\ conn'.phase = "idle"
                  /\ conn'.status = "connected"
        /\ (conn'.result = "true" /\ conn.result # "true")
             => conn.phase = "attempting" /\ conn'.socket
        /\ (conn'.result = "false" /\ conn.result # "false")
             => conn'.attempts = 3 /\ conn'.status = "disconnected"
                  /\ conn'.error]_vars
  /\ (conn.phase # "idle") ~> (conn.phase = "idle")

C23_Witness ==
  /\ conn.result = "false"
  /\ conn.attempts = 3
  /\ conn.waits = <<1000, 2000>>
  /\ conn.status = "disconnected"

\* ------------------------------------------------------------------------
\* Specification of a pairing exchange in which time passes
\* ------------------------------------------------------------------------
NextPairSilence == NextPair \/ PairAdvance(SilenceStepMs)

SpecPairSilence == InitPair /\ [][NextPairSilence]_vars

\* C24: a pairing attempt does not stay pending (ConnectionState pairing) once
\* 30 s have passed without a pairing message arriving.
C24_PairingSilenceTerminates ==
  \A p \in Peers : ~(pair[p].connectionState = "pairing" /\ pair[p].silent > 30000)

\* C25: a text frame written by a peer that holds a PairedDevice carries its
\* content encrypted under a shared secret of the pair, never as plaintext.
C25_TextEncryptedOnWire ==
  [][\A p \in Peers :
       (/\ Len(pair'[p].sent) > Len(pair[p].sent)
        /\ pair'[p].sent[Len(pair'[p].sent)].type = "text"
        /\ pair[p].pairedDevices # {})
         => \E d \in pair[p].pairedDevices :
              pair'[p].sent[Len(pair'[p].sent)].content = encrypt("hello", d.sharedSecret)]_vars

\* ------------------------------------------------------------------------
\* Specification of the codec when the peer also writes malformed frames
\* ------------------------------------------------------------------------
NextCodecMalformed == NextCodec \/ SendMalformedFrame

SpecCodecMalformed == InitCodec /\ [][NextCodecMalformed]_vars

\* C26: after every extraction the MessageBuffer holds no complete frame,
\* only an incomplete tail, also when a frame with malformed JSON came in.
C26_NoWholeFrameLeft ==
  LET len == getMessageLength(codec.buffer)
  IN len = -1 \/ length(codec.buffer) < len

\* ------------------------------------------------------------------------
\* Specification of the mobile auto-reconnect
\* ------------------------------------------------------------------------
NextReconnect ==
  \/ \E device \in RecDevices : RecConnect(device)
  \/ RecConnected
  \/ RecConnectError
  \/ RecHandleDisconnect
  \/ RecSocketClose
  \/ RecBackground
  \/ RecForeground
  \/ RecAutoReconnectTimer

InitReconnect == Init /\ platform = "mobile"

SpecReconnect == InitReconnect /\ [][NextReconnect]_vars

\* C27: after a user-initiated disconnect the auto-reconnect target is
\* cleared, and a return of the app to the foreground starts no automatic
\* reconnect.
C27_UserDisconnectStopsAutoReconnect ==
  [][rec'.userDisconnected
       => /\ rec'.lastConnectedDevice = NoDevice
          /\ ~(rec'.autoReconnecting /\ ~rec.autoReconnecting)]_vars

\* ------------------------------------------------------------------------
\* Specification of the transfer history
\* ------------------------------------------------------------------------
NextStore == AddTransfer \/ ClearTransfers

SpecStore == Init /\ [][NextStore]_vars

\* C28: the stored history has at most 100 entries, newest first, and they are
\* the transfers added most recently (since the last clearTransfers).
C28_HistoryNewest100 ==
  LET sinceClear == store.added - store.clearedAt
  IN /\ Len(store.transfers) <= 100
     /\ Len(store.transfers) = (IF sinceClear > 100 THEN 100 ELSE sinceClear)
     /\ \A i \in 1..Len(store.transfers) : store.transfers[i] = store.added - i + 1

C28_Witness ==
  /\ store.clearedAt > 0
  /\ store.added - store.clearedAt > 100
  /\ Len(store.transfers) = 100
  /\ store.transfers[1] = store.added

\* ------------------------------------------------------------------------
\* Specification of a peer whose pairing messages come from a sender that
\* does not follow the protocol
\* ------------------------------------------------------------------------
NextPairAny ==
  \/ \E d \in Peers : PairConnect(d)
  \/ \E p \in Peers, passphrase \in Passphrases : StartPairing(p, passphrase)
  \/ \E p \in Peers, passphrase \in Passphrases : RespondToPairing(p, passphrase)
  \/ \E p \in Peers : \E message \in AnyPairMessages(p) : PairInject(p, message)

SpecPairAny == InitPair /\ [][NextPairAny]_vars

\* C29: the pairing status of a side becomes success only from verifying.
C29_SuccessOnlyFromVerifying ==
  [][\A p \in Peers :
       (/\ pair'[p].currentPairingState.status = "success"
        /\ pair[p].currentPairingState.status # "success")
         => pair[p].currentPairingState.status = "verifying"]_vars

\* C30: a side whose pairing status is success has stored a PairedDevice for
\* the remote device of the pairing, with the shared secret of the pairing.
C30_SuccessStoresPairedDevice ==
  \A p \in Peers :
    pair[p].currentPairingState.status = "success"
      => \E d \in pair[p].pairedDevices :
           /\ d.id = pair[p].currentPairingState.remoteDevice
           /\ d.sharedSecret = pair[p].currentPairingState.sharedSecret
           /\ d.sharedSecret # NoSecret

\* C31: a responder holding a pair_request it received with no passphrase
\* queued has pairing status waiting, has signalled onPairingRequest for the
\* requesting device, and has sent no pair_challenge.
C31_RequestWithoutPassphraseWaits ==
  \A p \in Peers :
    pair[p].pendingPairingMessage # NoPairMessage
      => /\ pair[p].currentPairingState.status = "waiting"
         /\ pair[p].onPairingRequest = pair[p].pendingPairingMessage.deviceInfo
         /\ \A i \in 1..Len(pair[p].sent) : pair[p].sent[i].type # "pair_challenge"

\* C32: on the receiving side transferActive is set only while a receive is
\* in flight: once the receive has ended, whatever its outcome, no
\* receivingFileInfo, no file_complete in progress and no download is left,
\* and transferActive is cleared.
C32_TerminalClearsTransferActive ==
  xfer.transferActive
    => \/ xfer.receivingFileInfo.set
       \/ xfer.completing.active
       \/ xfer.download # NoDownload

\* C33: a 'close' or 'error' event of an old socket (one that was displaced
\* or disconnected and is no longer the current socket) that is delivered
\* while a new connection is live leaves the new connection alone: the
\* current socket stays the current socket and stays live.
C33_LateEventKeepsNewConnection ==
  [][\A s \in SockIds :
       (/\ sock[s].closeEv
        /\ ~sock'[s].closeEv
        /\ socket # 0
        /\ socket # s
        /\ Live(socket))
         => /\ socket' = socket
            /\ sock'[socket].st = "open"]_vars

NextTwoFiles == SendNextFile \/ SenderReceive \/ ReceiverReceive \/ WriteFileDone

SpecTwoFiles == Init /\ [][NextTwoFiles]_vars

\* C34: when small files were sent back to back and everything sent has
\* been handled (no frame in flight, no write in flight, no write failed),
\* the receiver has saved every file under its own name with its own bytes,
\* whatever the order of the asynchronous writes and the later file_requests.
C34_EveryFileSavedUnderItsName ==
  (/\ recv.sent = MaxFiles
   /\ recv.wire = <<>>
   /\ recv.back = <<>>
   /\ recv.writes = {}
   /\ ~recv.writeFailed)
    => \A f \in SentFiles : recv.disk[f] = fileData(f, recv.chunks[f])

\* C35: the 120 s timer that handleFileAccept() sets at the end of a chunk
\* send never clears transferActive while a later transfer (a receive that
\* began after the timer was set) is in flight on the connection.
C35_GraceTimerSparesLaterTransfer ==
  [][(/\ ka'.graceTimers < ka.graceTimers
      /\ ka.socket
      /\ ka.later
      /\ ka.transferActive)
       => ka'.transferActive]_vars

NextSendLoss == NextSend \/ SndDisconnect

SpecSendLoss == Init /\ [][NextSendLoss]_vars

\* C36: the promise of every sendFile call, also of calls that overlap, is
\* resolved at the latest when the connection is lost: while no device is
\* connected no sendFile call is still awaiting its promise.
C36_NoPendingSendFileAfterLoss ==
  ~snd.connectedDevice => \A i \in SendIds : snd.results[i] # "pending"

\* ------------------------------------------------------------------------
\* Specification of an initiator whose responder does not know the passphrase
\* ------------------------------------------------------------------------
NextPairImpostor ==
  \/ \E d \in Peers : PairConnect(d)
  \/ \E p \in Peers, passphrase \in Passphrases : StartPairing(p, passphrase)
  \/ \E p \in Peers : ImpostorReply(p)

SpecPairImpostor == InitPair /\ [][NextPairImpostor]_vars

\* C37: an initiator never reaches pairing status success, and never stores
\* a PairedDevice, with a responder that does not know the passphrase and
\* answers with a pair_challenge of its choosing and then with pair_confirm.
C37_NoSuccessWithoutPassphrase ==
  \A p \in Peers :
    /\ pair[p].currentPairingState.status # "success"
    /\ pair[p].pairedDevices = {}

\* ------------------------------------------------------------------------
\* Specification of the desktop receiving files in chunks, whole large
\* files included
\* ------------------------------------------------------------------------
InitFallback == Init /\ platform = "desktop"

NextFallback ==
  \/ DeviceConnected
  \/ DeviceDisconnected
  \/ RecvFileRequest
  \/ RecvFileChunk
  \/ RecvFileChunks
  \/ RecvFileComplete
  \/ ResumeFileComplete

SpecFallback == InitFallback /\ [][NextFallback]_vars

\* C38: the desktop is at the await of handleFileComplete() of a streaming
\* receive whose file_request announced size:N, whose N bytes are all on disk
\* and hashed, and whose file_complete repeats size:N (the mobile's streamed
\* chunk send). When the rename succeeds, the rest of handleFileComplete()
\* accepts the file: it produces the receive record of these bytes.
C38_SizeTaggedStreamAccepted ==
  LET info == xfer.receivingFileInfo
  IN (/\ xfer.completing.active
      /\ xfer.receivingStreaming
      /\ xfer.connectedDevice
      /\ info.set
      /\ info.checksum = SizeTag(toDecimal(info.fileSize))
      /\ xfer.completing.checksum = info.checksum
      /\ DataLen(xfer.tempFile) = info.fileSize
      /\ xfer.receivingHasher.data = xfer.tempFile
      /\ xfer.receivingBytesWritten = info.fileSize)
       => \E t \in resumeFileCompleteDesktop(xfer, TRUE).history :
            /\ t.via = "chunk"
            /\ t.file = xfer.tempFile
            /\ t.checksum = info.checksum

\* ------------------------------------------------------------------------
\* Specification of the codec over successive connections of one manager
\* ------------------------------------------------------------------------
NextCodecReconnect == SendControlFrame \/ OnData \/ SocketClosed \/ CodecReconnect

SpecCodecReconnect == InitCodec /\ [][NextCodecReconnect]_vars

\* C39: bytes of an incomplete frame left in the MessageBuffer when a
\* connection ended are not carried over: on a later connection the frames
\* received (each within the size limit) are parsed exactly as sent.
C39_NextConnectionParsedAsSent ==
  (/\ codec.connection > 1
   /\ \A i \in 1..Len(codec.sent) : length(stringify(codec.sent[i])) <= MAX_MESSAGE_SIZE)
    => /\ IsPrefix(codec.received, codec.sent)
       /\ codec.wire = <<>> => codec.received = codec.sent

\* C40: ConnectionState.status is disconnected exactly when the manager
\* holds no live socket: it is not disconnected while the manager's socket is
\* open with its data handler attached, and it is not connected or pairing
\* while the manager has no socket.
C40_DisconnectedIffNoLiveSocket ==
  /\ connectionState = "disconnected" => ~(socket # 0 /\ Live(socket))
  /\ connectionState \in {"connected", "pairing"} => socket # 0
====
